---- MODULE Spec2Model ----
(***************************************************************************)
(* Office-attendance compliance: the rule-based evaluator                  *)
(* (ComplianceChecker) over the attendance table of DatabaseManager.       *)
(*                                                                         *)
(* Time is counted in whole seconds from 00:00:00 of day 0 (the table's    *)
(* FECHA_FICHADA is a date with second resolution).  A timestamp value is  *)
(* a record [kind, t]: kind "datetime" is a native datetime, kind "str"    *)
(* the same instant as a '%Y-%m-%d %H:%M:%S' string (what a cached row     *)
(* holds).  A date key ('%Y-%m-%d') is the day number t \div 86400, and    *)
(* parsing a date key gives that day's midnight.                           *)
(***************************************************************************)
EXTENDS Integers, Sequences, FiniteSets, TLC

VARIABLES
    attendance_data,   \* the punch list handed to the rule evaluation
    start_date,        \* period start of the request (seconds)
    end_date,          \* period end of the request (seconds)
    connection,        \* db_manager.connection is set
    table,             \* CRONOS.FICHADA_PROCESO: employee id -> rows, by time
    cache,             \* redis: cache key -> the rows stored under it
    request,           \* the last call: its operation and inputs, whether
                       \* connect and the queries succeed among them
    outcome,           \* what the last call returned or raised
    response           \* what the route answers the request with

vars == <<attendance_data, start_date, end_date, connection, table, cache, request, outcome,
          response>>

----------------------------------------------------------------------------
(* Program constants *)

MinRequiredDays == 6
MinDaysWithHours == 6
MaxWeeksInPeriod == 5
DaysPerWeek == 7
SecondsPerHour == 3600
SecondsPerDay == 24 * SecondsPerHour

----------------------------------------------------------------------------
(* datetime helpers *)

Max(a, b) == IF a >= b THEN a ELSE b

\* fecha.strftime('%Y-%m-%d'): the calendar day of an instant
DateKey(t) == t \div SecondsPerDay

\* datetime.strptime(date_str, '%Y-%m-%d'): midnight of that day
ParseDateKey(k) == k * SecondsPerDay

\* (a - b).days: timedelta normalises to days = floor of the difference
TimedeltaDays(a, b) == (a - b) \div SecondsPerDay

At(day, h, m, s) == day * SecondsPerDay + h * SecondsPerHour + m * 60 + s

----------------------------------------------------------------------------
(* IEEE-754 binary64 arithmetic of `total_hours += seconds / 3600`.        *)
(* A non-negative double below 2^13 is held exactly as a natural number    *)
(* of units 2^-65, written in 6 limbs of 13 bits, limb 1 least             *)
(* significant (limbs 1..5 the fraction, limb 6 the whole hours).  Every   *)
(* double >= 2^-12 is a whole number of such units.                        *)

LimbBits == 12 + 1
Base == 2^LimbBits
Limbs == 1..6
\* the limbs of f as an explicit tuple
Number(f) == <<f[1], f[2], f[3], f[4], f[5], f[6]>>

FZero == Number([k \in Limbs |-> 0])

RECURSIVE BitLen(_)
BitLen(x) == IF x = 0 THEN 0 ELSE 1 + BitLen(x \div 2)

FBitLen(N) ==
    IF \A k \in Limbs : N[k] = 0 THEN 0
    ELSE LET top == CHOOSE k \in Limbs : N[k] # 0 /\ \A j \in Limbs : j > k => N[j] = 0
         IN  LimbBits * (top - 1) + BitLen(N[top])

FBit(N, i) == (N[(i \div LimbBits) + 1] \div 2^(i % LimbBits)) % 2

\* some of the d lowest bits is set
FLowNonZero(N, d) ==
    \/ \E k \in Limbs : k <= d \div LimbBits /\ N[k] # 0
    \/ N[(d \div LimbBits) + 1] % 2^(d % LimbBits) # 0

FClearLow(N, d) ==
    Number([k \in Limbs |->
        IF k < (d \div LimbBits) + 1 THEN 0
        ELSE IF k = (d \div LimbBits) + 1
             THEN (N[k] \div 2^(d % LimbBits)) * 2^(d % LimbBits)
             ELSE N[k]])

FPow2(d) ==
    Number([k \in Limbs |-> IF k = (d \div LimbBits) + 1 THEN 2^(d % LimbBits) ELSE 0])

RECURSIVE FCarry(_, _, _)
FCarry(X, Y, k) ==
    IF k = 1 THEN 0 ELSE (X[k - 1] + Y[k - 1] + FCarry(X, Y, k - 1)) \div Base

FAddExact(X, Y) == Number([k \in Limbs |-> (X[k] + Y[k] + FCarry(X, Y, k)) % Base])

\* N with its d lowest bits rounded away: to nearest, ties to even
RoundLow(N, d, sticky) ==
    IF /\ FBit(N, d - 1) = 1
       /\ (FLowNonZero(N, d - 1) \/ sticky \/ FBit(N, d) = 1)
    THEN FAddExact(FClearLow(N, d), FPow2(d))
    ELSE FClearLow(N, d)

\* round to nearest, ties to even, keeping 53 significant bits; `sticky`
\* says that the exact value has more non-zero bits below the last limb
Round53(N, sticky) ==
    IF FBitLen(N) <= 53 THEN N ELSE RoundLow(N, FBitLen(N) - 53, sticky)

\* the remainder of seconds / 3600 left after limb k is produced
RECURSIVE DivRem(_, _)
DivRem(a, k) ==
    IF k = 6 THEN a % SecondsPerHour
    ELSE (DivRem(a, k + 1) * Base) % SecondsPerHour

\* float(seconds) / 3600, correctly rounded
FDivHours(a) ==
    Round53(Number([k \in Limbs |->
                IF k = 6 THEN a \div SecondsPerHour
                ELSE (DivRem(a, k + 1) * Base) \div SecondsPerHour]),
            DivRem(a, 1) # 0)

\* x + y, correctly rounded
FAdd(X, Y) == Round53(FAddExact(X, Y), FALSE)

\* total_hours >= 8.0
FGe8(N) == N[6] >= 8

----------------------------------------------------------------------------
(* ComplianceChecker: the rule-based evaluator *)

\* one row of the attendance table
Punch(kind, t) == [FECHA_FICHADA |-> [kind |-> kind, t |-> t], IGNORAR |-> 0]

\* sorted(day_records, key=FECHA_FICHADA): stable, ascending
insert_sorted(s, r) ==
    LET n == Cardinality({j \in 1..Len(s) : s[j].FECHA_FICHADA.t <= r.FECHA_FICHADA.t})
    IN  SubSeq(s, 1, n) \o <<r>> \o SubSeq(s, n + 1, Len(s))

RECURSIVE sorted_by_fecha(_)
sorted_by_fecha(s) ==
    IF Len(s) <= 1 THEN s
    ELSE insert_sorted(sorted_by_fecha(SubSeq(s, 1, Len(s) - 1)), s[Len(s)])

EmptyGroups == [k \in {} |-> <<>>]

\* mutant: the period taken without its two bounds
outside_period_or_bound(fecha_fichada, start, end) ==
    fecha_fichada.t <= start \/ fecha_fichada.t >= end

\* fecha_fichada < start_date or fecha_fichada > end_date
outside_period(fecha_fichada, start, end) ==
    fecha_fichada.t < start \/ fecha_fichada.t > end

\* the loop of _group_by_day from record i on; acc holds daily_groups and
\* the diagnostic counters.  A FECHA_FICHADA that is neither a datetime nor
\* a parseable string is skipped (the else branch, or strptime raising
\* inside the try).
RECURSIVE group_by_day_loop(_, _, _, _, _)
group_by_day_loop(attendance, start, end, i, acc) ==
    IF i > Len(attendance) THEN acc
    ELSE LET record == attendance[i]
             fecha_fichada == record.FECHA_FICHADA
         IN  IF fecha_fichada.kind \notin {"datetime", "str"}
             THEN group_by_day_loop(attendance, start, end, i + 1, acc)
             ELSE IF outside_period(fecha_fichada, start, end)
             THEN group_by_day_loop(attendance, start, end, i + 1,
                      [acc EXCEPT !.records_outside_period = @ + 1])
             ELSE LET date_key == DateKey(fecha_fichada.t)
                      groups == acc.daily_groups
                      added ==
                          IF date_key \in DOMAIN groups
                          THEN [groups EXCEPT ![date_key] = Append(@, record)]
                          ELSE groups @@ (date_key :> <<record>>)
                  IN  group_by_day_loop(attendance, start, end, i + 1,
                          [acc EXCEPT !.daily_groups = added,
                                      !.records_in_period = @ + 1,
                                      !.records_processed = @ + 1])

group_by_day_counts(attendance, start, end) ==
    group_by_day_loop(attendance, start, end, 1,
        [daily_groups |-> EmptyGroups, records_in_period |-> 0,
         records_outside_period |-> 0, records_processed |-> 0])

\* the same with the punches of each date put in ascending order
group_by_day_sorted(attendance, start, end) ==
    [date_key \in DOMAIN group_by_day_counts(attendance, start, end).daily_groups |->
        sorted_by_fecha(group_by_day_counts(attendance, start, end).daily_groups[date_key])]

group_by_day(attendance, start, end) ==
    group_by_day_counts(attendance, start, end).daily_groups

\* mutant: more than 6 days asked for
check_minimum_days_strict(daily_attendance, total_records) ==
    LET days_with_attendance == Cardinality(DOMAIN daily_attendance)
    IN  [compliant |-> days_with_attendance > MinRequiredDays,
         days_attended |-> days_with_attendance,
         min_required |-> MinRequiredDays,
         total_records_available |-> total_records,
         reason |-> <<"Se requieren minimo", MinRequiredDays, "dias, se asistio",
                      days_with_attendance, "dias">>]

\* Rule 1
check_minimum_days(daily_attendance, total_records) ==
    LET days_with_attendance == Cardinality(DOMAIN daily_attendance)
        min_required == MinRequiredDays
    IN  [compliant |-> days_with_attendance >= min_required,
         days_attended |-> days_with_attendance,
         min_required |-> min_required,
         total_records_available |-> total_records,
         reason |->
            IF total_records > 0 /\ days_with_attendance = 0
            THEN <<"Se requieren minimo", min_required, "dias, se asistio",
                   days_with_attendance, "dias (Total registros:", total_records,
                   "pero ninguno en el periodo especificado)">>
            ELSE <<"Se requieren minimo", min_required, "dias, se asistio",
                   days_with_attendance, "dias">>]

\* mutant: the cap of 5 weeks left out
count_weeks_in_period_uncapped(start, end) ==
    Max(1, (TimedeltaDays(end, start) \div DaysPerWeek) + 1)

count_weeks_in_period(start, end) ==
    LET days_diff == TimedeltaDays(end, start)
        weeks_count == Max(1, (days_diff \div DaysPerWeek) + 1)
    IN  IF weeks_count > MaxWeeksInPeriod THEN MaxWeeksInPeriod ELSE weeks_count

\* the week number _check_weekly_distribution gives a date key
week_number(date_key, start) ==
    (TimedeltaDays(ParseDateKey(date_key), start) \div DaysPerWeek) + 1

\* mutant: min(1, total_weeks) for max(1, total_weeks)
check_weekly_distribution_min(daily_attendance, start, end) ==
    LET weeks_with_attendance ==
            {(TimedeltaDays(ParseDateKey(date_key), start) \div DaysPerWeek) + 1 :
                date_key \in DOMAIN daily_attendance}
        total_weeks ==
            IF (TimedeltaDays(end, start) \div DaysPerWeek) + 1 > MaxWeeksInPeriod
            THEN MaxWeeksInPeriod
            ELSE Max(1, (TimedeltaDays(end, start) \div DaysPerWeek) + 1)
        min_weeks_required == IF total_weeks < 1 THEN total_weeks ELSE 1
    IN  [compliant |-> Cardinality(weeks_with_attendance) >= min_weeks_required,
         weeks_with_attendance |-> Cardinality(weeks_with_attendance),
         total_weeks_in_period |-> total_weeks,
         min_weeks_required |-> min_weeks_required,
         reason |-> <<"Se requiere asistencia en al menos", min_weeks_required,
                      "semana(s), se asistio en",
                      Cardinality(weeks_with_attendance), "semana(s)">>]

\* Rule 2
check_weekly_distribution(daily_attendance, start, end) ==
    LET weeks_with_attendance ==
            {week_number(date_key, start) : date_key \in DOMAIN daily_attendance}
        total_weeks == count_weeks_in_period(start, end)
        min_weeks_required == Max(1, total_weeks)
    IN  [compliant |-> Cardinality(weeks_with_attendance) >= min_weeks_required,
         weeks_with_attendance |-> Cardinality(weeks_with_attendance),
         total_weeks_in_period |-> total_weeks,
         min_weeks_required |-> min_weeks_required,
         reason |-> <<"Se requiere asistencia en al menos", min_weeks_required,
                      "semana(s), se asistio en",
                      Cardinality(weeks_with_attendance), "semana(s)">>]

\* for i in range(0, len(sorted_records) - 1, 2): total_hours += pair hours
RECURSIVE sum_pair_hours(_, _, _)
sum_pair_hours(sorted_records, i, total_hours) ==
    IF i >= Len(sorted_records) - 1 THEN total_hours
    ELSE LET entry_time == sorted_records[i + 1].FECHA_FICHADA.t
             exit_time == sorted_records[i + 2].FECHA_FICHADA.t
         IN  sum_pair_hours(sorted_records, i + 2,
                 FAdd(total_hours, FDivHours(exit_time - entry_time)))

\* _day_meets_minimum_hours.  The records of a day are those _group_by_day
\* let through (datetime or parseable string); sorting a day that mixes the
\* two types raises TypeError, which the except turns into False.
day_meets_minimum_hours(day_records) ==
    IF Len(day_records) < 2 THEN FALSE
    ELSE IF \E i, j \in 1..Len(day_records) :
                day_records[i].FECHA_FICHADA.kind # day_records[j].FECHA_FICHADA.kind
    THEN FALSE
    ELSE FGe8(sum_pair_hours(sorted_by_fecha(day_records), 0, FZero))

\* mutant: Rule 3 content with one day fewer than Rule 1
minimum_hours_result_one_less(days_meeting_hours, total_days) ==
    [compliant |-> days_meeting_hours >= MinRequiredDays - 1,
     days_meeting_hours |-> days_meeting_hours,
     total_days |-> total_days,
     min_days_required |-> MinRequiredDays - 1,
     reason |-> <<"Se requieren minimo", MinRequiredDays - 1,
                  "dias con 8+ horas, se cumplio en", days_meeting_hours, "dias">>]

\* the result of Rule 3 once the days are counted
minimum_hours_result(days_meeting_hours, total_days) ==
    LET min_days_required == MinDaysWithHours
    IN  [compliant |-> days_meeting_hours >= min_days_required,
         days_meeting_hours |-> days_meeting_hours,
         total_days |-> total_days,
         min_days_required |-> min_days_required,
         reason |-> <<"Se requieren minimo", min_days_required,
                      "dias con 8+ horas, se cumplio en", days_meeting_hours, "dias">>]

\* Rule 3
check_minimum_hours(daily_attendance) ==
    minimum_hours_result(
        Cardinality({k \in DOMAIN daily_attendance :
                        day_meets_minimum_hours(daily_attendance[k])}),
        Cardinality(DOMAIN daily_attendance))

\* mutant: Rule 3 left out of the verdict
overall_of_two(rule_1, rule_2, rule_3) ==
    rule_1.compliant /\ rule_2.compliant

overall_of(rule_1, rule_2, rule_3) ==
    rule_1.compliant /\ rule_2.compliant /\ rule_3.compliant

\* sep.join(parts): the parts in order, the separator between neighbours
RECURSIVE join(_, _)
join(sep, parts) ==
    IF Len(parts) <= 1 THEN parts
    ELSE <<Head(parts), sep>> \o join(sep, Tail(parts))

\* mutant: every rule's reason is appended, failing or not
failing_reasons_all(rule_1_result, rule_2_result, rule_3_result) ==
    << <<"Regla 1:", rule_1_result.reason>>,
       <<"Regla 2:", rule_2_result.reason>>,
       <<"Regla 3:", rule_3_result.reason>> >>

\* the list `reasons` of _analyze_compliance
failing_reasons(rule_1_result, rule_2_result, rule_3_result) ==
    (IF ~rule_1_result.compliant
     THEN << <<"Regla 1:", rule_1_result.reason>> >> ELSE <<>>)
    \o (IF ~rule_2_result.compliant
        THEN << <<"Regla 2:", rule_2_result.reason>> >> ELSE <<>>)
    \o (IF ~rule_3_result.compliant
        THEN << <<"Regla 3:", rule_3_result.reason>> >> ELSE <<>>)

\* _analyze_compliance once the three rules are evaluated
compliance_result_of(rule_1_result, rule_2_result, rule_3_result, daily_attendance) ==
    LET overall_compliance == overall_of(rule_1_result, rule_2_result, rule_3_result)
    IN  [overall_compliance |-> overall_compliance,
         reason |-> IF overall_compliance
                    THEN << <<"Cumple con todas las reglas">> >>
                    ELSE join("; ", failing_reasons(rule_1_result, rule_2_result,
                                                    rule_3_result)),
         details |-> [rule_1_minimum_days |-> rule_1_result,
                      rule_2_weekly_distribution |-> rule_2_result,
                      rule_3_minimum_hours |-> rule_3_result,
                      daily_attendance |-> daily_attendance]]

\* the three rules over the punches grouped by day
analyze_daily_attendance(daily_attendance, total_records, start, end) ==
    compliance_result_of(
        check_minimum_days(daily_attendance, total_records),
        check_weekly_distribution(daily_attendance, start, end),
        check_minimum_hours(daily_attendance),
        daily_attendance)

analyze_compliance(attendance, start, end) ==
    analyze_daily_attendance(group_by_day(attendance, start, end), Len(attendance),
                             start, end)

PeriodText(start, end) == <<DateKey(start), "a", DateKey(end)>>

NoDataReason == << <<"No hay datos de asistencia en el periodo">> >>
EmptyDetails == [k \in {} |-> 0]

\* the verdict check_employee_compliance builds from a compliance_result
evaluated_verdict(employee_id, start, end, compliance_result) ==
    [employee_id |-> employee_id,
     period |-> PeriodText(start, end),
     compliance |-> compliance_result.overall_compliance,
     reason |-> compliance_result.reason,
     details |-> compliance_result.details]

\* mutant: the empty punch list is analysed like any other
compliance_verdict_analysed(employee_id, attendance, start, end) ==
    evaluated_verdict(employee_id, start, end,
                      analyze_compliance(attendance, start, end))

\* check_employee_compliance from the fetched rows on
compliance_verdict(employee_id, attendance, start, end) ==
    IF attendance = <<>>
    THEN [employee_id |-> employee_id,
          period |-> PeriodText(start, end),
          compliance |-> FALSE,
          reason |-> NoDataReason,
          details |-> EmptyDetails]
    ELSE evaluated_verdict(employee_id, start, end,
                           analyze_compliance(attendance, start, end))

----------------------------------------------------------------------------
(* Inputs of the rule evaluation *)

\* how many of the days of AllDays a punch list may use
NumCandidateDays == 8

\* days 0,1,2 lie in the first 7-day block of a period starting on day 0,
\* 8,9 in the second, 15 in the third, 22 in the fourth, 29 in the fifth,
\* 36 in the sixth
AllDays == <<0, 1, 2, 8, 9, 15, 22, 29, 36, 43>>
CandidateDays == {AllDays[i] : i \in 1..NumCandidateDays}

\* the punches of one day, as seconds after midnight
DayPattern(name) ==
    CASE name = "pair8"       -> <<9 * 3600, 17 * 3600>>
      [] name = "pair9"       -> <<9 * 3600, 18 * 3600>>
      [] name = "under9"      -> <<9 * 3600, 18 * 3600 - 1>>
      [] name = "over9"       -> <<8 * 3600 + 3000, 18 * 3600>>
      [] name = "single"      -> <<9 * 3600>>
      [] name = "short"       -> <<9 * 3600, 17 * 3600 - 1>>
      [] name = "trailing"    -> <<9 * 3600, 17 * 3600, 18 * 3600>>
      [] name = "three_exact" -> <<8 * 3600, 10 * 3600, 10 * 3600 + 1800,
                                   14 * 3600 + 1800, 15 * 3600, 17 * 3600>>
      [] name = "three_pairs" -> <<8 * 3600, 9 * 3600 + 3000, 10 * 3600,
                                   14 * 3600 + 1200, 15 * 3600, 16 * 3600 + 3000>>

OddPatterns == {"single", "short", "trailing", "three_exact", "three_pairs"}

DayPunches(day, name, kind) ==
    [i \in 1..Len(DayPattern(name)) |->
        Punch(kind, day * SecondsPerDay + DayPattern(name)[i])]

\* the rows of the days in S by ascending time: every day a 09:00-17:00
\* pair, but the day `odd` with the punches of `pattern`
RECURSIVE PunchList(_, _, _, _, _)
PunchList(S, odd, pattern, kind, i) ==
    IF i > Len(AllDays) THEN <<>>
    ELSE (IF AllDays[i] \in S
          THEN DayPunches(AllDays[i], IF AllDays[i] = odd THEN pattern ELSE "pair8", kind)
          ELSE <<>>)
         \o PunchList(S, odd, pattern, kind, i + 1)

Reverse(s) == [i \in 1..Len(s) |-> s[Len(s) + 1 - i]]

\* "db": native datetimes by ascending time (the query's ORDER BY);
\* "cache": the same rows read back from the cache, timestamps as strings;
\* "unordered": a list in descending time;
\* "anomalous": the fetched rows between a row without timestamp and a row
\* whose timestamp is a string strptime cannot parse
Shaped(shape, S, odd, pattern) ==
    CASE shape = "db"        -> PunchList(S, odd, pattern, "datetime", 1)
      [] shape = "cache"     -> PunchList(S, odd, pattern, "str", 1)
      [] shape = "unordered" -> Reverse(PunchList(S, odd, pattern, "datetime", 1))
      [] shape = "anomalous" -> <<Punch("NoneType", 0)>>
                                \o PunchList(S, odd, pattern, "datetime", 1)
                                \o <<Punch("unparseable", 0)>>

Min(S) == CHOOSE x \in S : \A y \in S : x <= y

\* the lists of one shape: any set of candidate days, all of them 09:00-17:00
\* pairs or the earliest of them with one of the other patterns
PunchLists(shape) ==
    {Shaped(shape, S, Min(S), pattern) :
        S \in (SUBSET CandidateDays) \ {{}}, pattern \in OddPatterns \cup {"pair8"}}
    \cup {<<>>}

P30 == <<At(0, 0, 0, 0), At(30, 0, 0, 0)>>      \* 30 days from midnight
PNoon == <<At(0, 12, 0, 0), At(30, 12, 0, 0)>>  \* now - 30 days .. now, at noon
P41 == <<At(0, 0, 0, 0), At(41, 0, 0, 0)>>      \* six 7-day blocks
P6 == <<At(0, 0, 0, 0), At(6, 0, 0, 0)>>        \* one 7-day block
Periods == {P30, PNoon, P41, P6}
\* a period that starts and ends on the instant of a punch
PEdge == <<At(1, 9, 0, 0), At(8, 17, 0, 0)>>

\* the evaluated cases: fetched rows under every period, cached and
\* unordered rows under the 30-day period, anomalous rows under the period
\* bounded by punches
RuleCases ==
    {<<l, p>> : l \in PunchLists("db"), p \in Periods}
    \cup {<<l, P30>> : l \in PunchLists("cache") \cup PunchLists("unordered")}
    \cup {<<l, PEdge>> : l \in PunchLists("anomalous")}

NoRequest == [op |-> "none"]
NoOutcome == [kind |-> "none"]
NoResponse == [status |-> 0]
Returned(v) == [kind |-> "returned", value |-> v]
Raised(e) == [kind |-> "raised", error |-> e]

InitRules ==
    /\ \E c \in RuleCases :
          /\ attendance_data = c[1]
          /\ start_date = c[2][1]
          /\ end_date = c[2][2]
    /\ connection = TRUE
    /\ table = <<>>
    /\ cache = <<>>
    /\ request = NoRequest
    /\ outcome = NoOutcome
    /\ response = NoResponse

\* the rule evaluation of one fetched punch list
Evaluate ==
    /\ outcome = NoOutcome
    /\ request' = [op |-> "evaluate", employee_id |-> 1]
    /\ outcome' = Returned(compliance_verdict(1, attendance_data, start_date, end_date))
    /\ UNCHANGED <<attendance_data, start_date, end_date, connection, table, cache,
                   response>>

NextRules == Evaluate

SpecRules == InitRules /\ [][NextRules]_vars

----------------------------------------------------------------------------
(* DatabaseManager and the two entry points of ComplianceChecker *)

\* how many employees the attendance table holds
NumEmployees == 3
Employees == 1..NumEmployees

ConnectError == "connect failed"
FetchError == "query failed"

\* _get_cache_key("attendance", ...): the period enters by its dates only
cache_key(employee_id, start, end) == <<employee_id, DateKey(start), DateKey(end)>>

\* json.loads(json.dumps(records, default=str)): a datetime comes back as
\* its string
json_round_trip(records) ==
    [i \in 1..Len(records) |->
        [records[i] EXCEPT !.FECHA_FICHADA =
            [kind |-> IF @.kind = "datetime" THEN "str" ELSE @.kind, t |-> @.t]]]

\* the value that stands for SQL NULL in the numeric column IGNORAR
Null == -1

\* mutant: the SELECT without its condition on IGNORAR
query_attendance_unfiltered(rows, start, end) ==
    SelectSeq(rows, LAMBDA r : r.FECHA_FICHADA.t >= start /\ r.FECHA_FICHADA.t <= end)

\* the SELECT of get_employee_attendance over the employee's rows
query_attendance(rows, start, end) ==
    LET selected(r) == /\ r.FECHA_FICHADA.t >= start
                       /\ r.FECHA_FICHADA.t <= end
                       /\ (r.IGNORAR = 0 \/ r.IGNORAR = Null)
    IN  SelectSeq(rows, selected)

\* get_employee_attendance: a non-empty cached value is returned as it is;
\* otherwise the query runs, raises when the database fails (db_ok false),
\* and its rows are cached
get_employee_attendance(cached, rows, employee_id, start, end, db_ok) ==
    LET key == cache_key(employee_id, start, end)
    IN  IF key \in DOMAIN cached /\ cached[key] # <<>>
        THEN [raised |-> FALSE, records |-> cached[key], cache |-> cached]
        ELSE IF ~db_ok
        THEN [raised |-> TRUE, records |-> <<>>, cache |-> cached]
        ELSE LET records == query_attendance(rows, start, end)
                 stored == json_round_trip(records)
             IN  [raised |-> FALSE, records |-> records,
                  cache |-> IF key \in DOMAIN cached
                            THEN [cached EXCEPT ![key] = stored]
                            ELSE cached @@ (key :> stored)]

\* mutant: an exception ends in a non-compliant verdict
check_employee_compliance_swallowed(conn, cached, rows, employee_id, start, end, connect_ok, db_ok) ==
    IF (~conn /\ ~connect_ok)
       \/ get_employee_attendance(cached, rows, employee_id, start, end, db_ok).raised
    THEN [outcome |-> Returned([employee_id |-> employee_id,
                                period |-> PeriodText(start, end),
                                compliance |-> FALSE,
                                reason |-> << <<"Error">> >>,
                                details |-> EmptyDetails]),
          connection |-> conn, cache |-> cached]
    ELSE [outcome |-> Returned(compliance_verdict(employee_id,
                          get_employee_attendance(cached, rows, employee_id, start, end, db_ok).records,
                          start, end)),
          connection |-> TRUE,
          cache |-> get_employee_attendance(cached, rows, employee_id, start, end, db_ok).cache]

\* check_employee_compliance: connect when no connection is set, fetch,
\* evaluate; every exception is logged and raised again
check_employee_compliance(conn, cached, rows, employee_id, start, end, connect_ok, db_ok) ==
    IF ~conn /\ ~connect_ok
    THEN [outcome |-> Raised(ConnectError), connection |-> conn, cache |-> cached]
    ELSE LET fetched == get_employee_attendance(cached, rows, employee_id, start, end, db_ok)
         IN  IF fetched.raised
             THEN [outcome |-> Raised(FetchError), connection |-> TRUE, cache |-> cached]
             ELSE [outcome |-> Returned(compliance_verdict(employee_id, fetched.records, start, end)),
                   connection |-> TRUE, cache |-> fetched.cache]

\* the verdict check_multiple_employees_compliance records for an employee
\* whose check raised
failed_verdict(employee_id, start, end, error) ==
    [employee_id |-> employee_id,
     period |-> PeriodText(start, end),
     compliance |-> FALSE,
     reason |-> << <<"Error al verificar cumplimiento:", error>> >>,
     details |-> EmptyDetails]

\* mutant: a check that raised leaves no entry
batch_step_dropped(acc, employee_id, start, end, checked) ==
    [results |-> IF checked.outcome.kind = "raised"
                 THEN acc.results
                 ELSE Append(acc.results, checked.outcome.value),
     cache |-> checked.cache,
     raised |-> Append(acc.raised, checked.outcome.kind = "raised")]

\* the body of the loop of check_multiple_employees_compliance: the verdict
\* of the employee's check is appended, or, when the check raised, the
\* verdict of the except branch; acc holds the results so far, the cache,
\* and which checks raised
batch_step(acc, employee_id, start, end, checked) ==
    [results |-> Append(acc.results,
                    IF checked.outcome.kind = "raised"
                    THEN failed_verdict(employee_id, start, end, checked.outcome.error)
                    ELSE checked.outcome.value),
     cache |-> checked.cache,
     raised |-> Append(acc.raised, checked.outcome.kind = "raised")]

\* the loop of check_multiple_employees_compliance from position i on
RECURSIVE batch_loop(_, _, _, _, _, _, _)
batch_loop(rows_of, employee_ids, start, end, db_ok, i, acc) ==
    IF i > Len(employee_ids) THEN acc
    ELSE batch_loop(rows_of, employee_ids, start, end, db_ok, i + 1,
             batch_step(acc, employee_ids[i], start, end,
                 check_employee_compliance(TRUE, acc.cache, rows_of[employee_ids[i]],
                     employee_ids[i], start, end, TRUE, db_ok[i])))

\* `return results` of check_multiple_employees_compliance
batch_return(done) ==
    [outcome |-> Returned(done.results), connection |-> TRUE,
     cache |-> done.cache, raised |-> done.raised]

\* mutant: a failing connect gives every employee a failed verdict
check_multiple_employees_compliance_converted(conn, cached, rows_of, employee_ids, start, end, connect_ok, db_ok) ==
    IF ~conn /\ ~connect_ok
    THEN [outcome |-> Returned([i \in 1..Len(employee_ids) |->
                          failed_verdict(employee_ids[i], start, end, ConnectError)]),
          connection |-> conn, cache |-> cached,
          raised |-> [i \in 1..Len(employee_ids) |-> TRUE]]
    ELSE batch_return(batch_loop(rows_of, employee_ids, start, end, db_ok, 1,
                          [results |-> <<>>, cache |-> cached, raised |-> <<>>]))

\* check_multiple_employees_compliance: a failing connect is raised again;
\* otherwise one entry per employee id
check_multiple_employees_compliance(conn, cached, rows_of, employee_ids, start, end, connect_ok, db_ok) ==
    IF ~conn /\ ~connect_ok
    THEN [outcome |-> Raised(ConnectError), connection |-> conn, cache |-> cached,
          raised |-> <<>>]
    ELSE batch_return(batch_loop(rows_of, employee_ids, start, end, db_ok, 1,
                          [results |-> <<>>, cache |-> cached, raised |-> <<>>]))

----------------------------------------------------------------------------
(* The attendance table and the requests *)

\* the punches of the days in S, every day a 09:00-17:00 pair
Rows(S) == PunchList(S, -1, "pair8", "datetime", 1)

\* one employee attends every block of the 30-day period, one only three
\* blocks, one has punches after the period only, one has no punches
Dataset(n) ==
    CASE n = 0 -> Rows({0, 1, 8, 15, 22, 29})
      [] n = 1 -> Rows({0, 1, 2, 8, 9, 15})
      [] n = 2 -> Rows({36, 43})
      [] n = 3 -> <<>>

RECURSIVE TableRows(_)
TableRows(e) ==
    IF e > NumEmployees THEN <<>> ELSE <<Dataset((e - 1) % 4)>> \o TableRows(e + 1)

\* the rows of every employee
AttendanceTable == TableRows(1)

\* the id lists of a batch request: the employees in any order without
\* repetition, and an employee asked for twice
EmployeeIdLists ==
    {ids \in UNION {[1..n -> Employees] : n \in 0..NumEmployees} :
        \A i, j \in 1..Len(ids) : i # j => ids[i] # ids[j]}
    \cup {<<e, e>> : e \in Employees}

Init ==
    /\ attendance_data = <<>>
    /\ start_date = P30[1] /\ end_date = P30[2]
    /\ connection = FALSE
    /\ table = AttendanceTable
    /\ cache = <<>>
    /\ request = NoRequest
    /\ outcome = NoOutcome
    /\ response = NoResponse

\* raise HTTPException(status_code=500, detail=str(e))
http_error(error) == [status |-> 500, detail |-> error]

\* the answer of GET /compliance/employee/{employee_id}
single_response(result) ==
    IF result.kind = "raised" THEN http_error(result.error)
    ELSE [status |-> 200, body |-> result.value]

\* number of verdicts of the list whose compliance field is as given
RECURSIVE count_compliance(_, _)
count_compliance(results, flag) ==
    IF results = <<>> THEN 0
    ELSE (IF Head(results).compliance = flag THEN 1 ELSE 0)
         + count_compliance(Tail(results), flag)

\* mutant: non-compliant employees are those whose check raised
batch_summary_errors_only(employee_ids, start, end, compliance_results) ==
    [period |-> PeriodText(start, end),
     total_employees |-> Len(employee_ids),
     compliant_employees |-> count_compliance(compliance_results, TRUE),
     non_compliant_employees |->
         Cardinality({i \in 1..Len(compliance_results) :
             compliance_results[i].reason[1][1] = "Error al verificar cumplimiento:"}),
     results |-> compliance_results]

\* the summary POST /compliance/multiple-employees returns
batch_summary(employee_ids, start, end, compliance_results) ==
    [period |-> PeriodText(start, end),
     total_employees |-> Len(employee_ids),
     compliant_employees |-> count_compliance(compliance_results, TRUE),
     non_compliant_employees |-> count_compliance(compliance_results, FALSE),
     results |-> compliance_results]

\* the answer of POST /compliance/multiple-employees
batch_response(employee_ids, start, end, result) ==
    IF result.kind = "raised" THEN http_error(result.error)
    ELSE [status |-> 200,
          body |-> batch_summary(employee_ids, start, end, result.value)]

\* the call ends: what it returned or raised, and what it left behind
SingleDone(employee_id, connect_ok, db_ok, call) ==
    /\ request' = [op |-> "single", employee_id |-> employee_id,
                   connect_ok |-> connect_ok, db_ok |-> db_ok]
    /\ outcome' = call.outcome
    /\ response' = single_response(call.outcome)
    /\ connection' = call.connection
    /\ cache' = call.cache

BatchDone(employee_ids, connect_ok, db_ok, call) ==
    /\ request' = [op |-> "batch", employee_ids |-> employee_ids,
                   connect_ok |-> connect_ok, db_ok |-> db_ok,
                   raised |-> call.raised]
    /\ outcome' = call.outcome
    /\ response' = batch_response(employee_ids, start_date, end_date, call.outcome)
    /\ connection' = call.connection
    /\ cache' = call.cache

\* GET /compliance/employee/{employee_id}
CheckEmployee(employee_id, connect_ok, db_ok) ==
    /\ request = NoRequest
    /\ SingleDone(employee_id, connect_ok, db_ok,
           check_employee_compliance(connection, cache, table[employee_id],
               employee_id, start_date, end_date, connect_ok, db_ok))
    /\ UNCHANGED <<attendance_data, start_date, end_date, table>>

\* POST /compliance/multiple-employees
CheckMultiple(employee_ids, connect_ok, db_ok) ==
    /\ request = NoRequest
    /\ BatchDone(employee_ids, connect_ok, db_ok,
           check_multiple_employees_compliance(connection, cache, table,
               employee_ids, start_date, end_date, connect_ok, db_ok))
    /\ UNCHANGED <<attendance_data, start_date, end_date, table>>

\* the response is sent; the next request may come
Respond ==
    /\ request # NoRequest
    /\ request' = NoRequest
    /\ outcome' = NoOutcome
    /\ response' = NoResponse
    /\ UNCHANGED <<attendance_data, start_date, end_date, connection, table, cache>>

\* a cache entry reaches its time to live
CacheExpire ==
    /\ request = NoRequest
    /\ \E key \in DOMAIN cache :
          cache' = [k \in DOMAIN cache \ {key} |-> cache[k]]
    /\ UNCHANGED <<attendance_data, start_date, end_date, connection, table, request, outcome,
                   response>>

Next ==
    \/ \E e \in Employees, connect_ok \in BOOLEAN, db_ok \in BOOLEAN :
          CheckEmployee(e, connect_ok, db_ok)
    \/ \E ids \in EmployeeIdLists, connect_ok \in BOOLEAN :
          \E db_ok \in [1..Len(ids) -> BOOLEAN] :
             CheckMultiple(ids, connect_ok, db_ok)
    \/ Respond
    \/ CacheExpire

Spec == Init /\ [][Next]_vars

----------------------------------------------------------------------------
(* AttendanceAnalyzer: the graduated monthly path.  A month is given by    *)
(* what calendar.monthrange(year, month) tells of it, the weekday of its   *)
(* first day (0 = Monday) and its number of days; its first day is day 0   *)
(* of the time scale, so day number d of the month has date key d - 1.     *)

\* an absent entry_time or exit_time
None == [kind |-> "None"]
\* an absent hours_worked
NoHours == <<>>

AttributeError == "'str' object has no attribute 'date'"

\* hours_worked >= 9.0
FGe9(N) == N[6] >= 9

\* daily_records[date_key]: the records of one date, in arrival order
daily_records(records, date_key) ==
    SelectSeq(records, LAMBDA record : DateKey(record.FECHA_FICHADA.t) = date_key)

\* the same with 8.0 for the threshold of the complete day
daily_attendance_of_8h(date_key, day_records, hours_worked) ==
    [date |-> ParseDateKey(date_key),
     entry_time |-> IF Len(day_records) \in {1, 2}
                    THEN day_records[1].FECHA_FICHADA ELSE None,
     exit_time |-> IF Len(day_records) = 2 THEN day_records[2].FECHA_FICHADA ELSE None,
     hours_worked |-> IF Len(day_records) = 2 THEN hours_worked ELSE NoHours,
     is_complete |-> Len(day_records) = 2,
     meets_9h_requirement |-> IF Len(day_records) = 2 THEN FGe8(hours_worked) ELSE FALSE]

\* the DailyAttendance of one date, from its records sorted by time and the
\* hours between the first two of them
daily_attendance_of(date_key, day_records, hours_worked) ==
    [date |-> ParseDateKey(date_key),
     entry_time |-> IF Len(day_records) \in {1, 2}
                    THEN day_records[1].FECHA_FICHADA ELSE None,
     exit_time |-> IF Len(day_records) = 2 THEN day_records[2].FECHA_FICHADA ELSE None,
     hours_worked |-> IF Len(day_records) = 2 THEN hours_worked ELSE NoHours,
     is_complete |-> Len(day_records) = 2,
     meets_9h_requirement |-> IF Len(day_records) = 2 THEN FGe9(hours_worked) ELSE FALSE]

\* the same in whole hours
pair_hours_whole(day_records) ==
    IF Len(day_records) = 2
    THEN FDivHours(((day_records[2].FECHA_FICHADA.t - day_records[1].FECHA_FICHADA.t)
                        \div SecondsPerHour) * SecondsPerHour)
    ELSE FZero

\* time_diff.total_seconds() / 3600.0 of a day of exactly 2 records
pair_hours(day_records) ==
    IF Len(day_records) = 2
    THEN FDivHours(day_records[2].FECHA_FICHADA.t - day_records[1].FECHA_FICHADA.t)
    ELSE FZero

day_attendance(date_key, day_records) ==
    daily_attendance_of(date_key, day_records, pair_hours(day_records))

\* _parse_daily_attendance: record['FECHA_FICHADA'].date() raises on a
\* timestamp held as a string
parse_daily_attendance(records) ==
    IF \E i \in 1..Len(records) : records[i].FECHA_FICHADA.kind = "str"
    THEN Raised(AttributeError)
    ELSE Returned([date_key \in {DateKey(records[i].FECHA_FICHADA.t) : i \in 1..Len(records)} |->
                      day_attendance(date_key,
                                     sorted_by_fecha(daily_records(records, date_key)))])

\* the same without the last week when it is not a whole one
monthcalendar_whole_weeks(month) ==
    [w \in 1..((month.first_weekday + month.days) \div DaysPerWeek) |->
        [c \in 1..DaysPerWeek |->
            LET day == DaysPerWeek * (w - 1) + c - month.first_weekday
            IN  IF day \in 1..month.days THEN day ELSE 0]]

\* calendar.monthcalendar(year, month): the weeks of the month, each a row of
\* the day numbers from Monday to Sunday, 0 for a day of another month
monthcalendar(month) ==
    [w \in 1..((month.first_weekday + month.days + DaysPerWeek - 1) \div DaysPerWeek) |->
        [c \in 1..DaysPerWeek |->
            LET day == DaysPerWeek * (w - 1) + c - month.first_weekday
            IN  IF day \in 1..month.days THEN day ELSE 0]]

\* the same counting every day that has an entry
RECURSIVE week_loop_every_entry(_, _, _, _)
week_loop_every_entry(daily_attendance, days_in_current_month, i, acc) ==
    IF i > Len(days_in_current_month) THEN acc
    ELSE week_loop_every_entry(daily_attendance, days_in_current_month, i + 1,
            IF (days_in_current_month[i] - 1) \in DOMAIN daily_attendance
            THEN LET attendance == daily_attendance[days_in_current_month[i] - 1]
                 IN  [week_days |-> Append(acc.week_days, attendance),
                      days_attended |-> acc.days_attended + 1,
                      total_hours |-> IF attendance.is_complete
                                      THEN FAdd(acc.total_hours, attendance.hours_worked)
                                      ELSE acc.total_hours]
            ELSE acc)

\* for day in days_in_current_month: the week's entries, count and hours
RECURSIVE week_loop(_, _, _, _)
week_loop(daily_attendance, days_in_current_month, i, acc) ==
    IF i > Len(days_in_current_month) THEN acc
    ELSE week_loop(daily_attendance, days_in_current_month, i + 1,
            IF (days_in_current_month[i] - 1) \in DOMAIN daily_attendance
            THEN LET attendance == daily_attendance[days_in_current_month[i] - 1]
                 IN  [week_days |-> Append(acc.week_days, attendance),
                      days_attended |-> IF attendance.is_complete
                                        THEN acc.days_attended + 1
                                        ELSE acc.days_attended,
                      total_hours |-> IF attendance.is_complete
                                      THEN FAdd(acc.total_hours, attendance.hours_worked)
                                      ELSE acc.total_hours]
            ELSE acc)

\* the same requiring at most 2 days
weekly_pattern_upto_2(days_in_current_month, week) ==
    [week_start |-> ParseDateKey(days_in_current_month[1] - 1),
     week_end |-> ParseDateKey(days_in_current_month[Len(days_in_current_month)] - 1),
     days_attended |-> week.days_attended,
     total_hours |-> week.total_hours,
     days_details |-> week.week_days,
     meets_pattern_requirement |-> week.days_attended \in {0, 1, 2}]

\* the WeeklyPattern of one week once its days are gone through
weekly_pattern(days_in_current_month, week) ==
    [week_start |-> ParseDateKey(days_in_current_month[1] - 1),
     week_end |-> ParseDateKey(days_in_current_month[Len(days_in_current_month)] - 1),
     days_attended |-> week.days_attended,
     total_hours |-> week.total_hours,
     days_details |-> week.week_days,
     meets_pattern_requirement |-> week.days_attended \in {1, 2}]

NoWeek == [week_days |-> <<>>, days_attended |-> 0, total_hours |-> FZero]

\* for week in cal: a week with no day of the month is skipped
RECURSIVE weeks_loop(_, _, _, _)
weeks_loop(daily_attendance, cal, w, weekly_patterns) ==
    IF w > Len(cal) THEN weekly_patterns
    ELSE LET days_in_current_month == SelectSeq(cal[w], LAMBDA day : day # 0)
         IN  weeks_loop(daily_attendance, cal, w + 1,
                IF days_in_current_month = <<>> THEN weekly_patterns
                ELSE Append(weekly_patterns,
                        weekly_pattern(days_in_current_month,
                            week_loop(daily_attendance, days_in_current_month, 1, NoWeek))))

analyze_weekly_patterns(daily_attendance, month) ==
    weeks_loop(daily_attendance, monthcalendar(month), 1, <<>>)

\* the places of the entries of all weeks
all_days(weekly_patterns) ==
    UNION {{<<w, d>> : d \in 1..Len(weekly_patterns[w].days_details)} :
              w \in 1..Len(weekly_patterns)}

\* sum(1 for pattern in weekly_patterns for day in pattern.days_details
\*     if day.is_complete)
count_valid_days(weekly_patterns) ==
    Cardinality({wd \in all_days(weekly_patterns) :
                    weekly_patterns[wd[1]].days_details[wd[2]].is_complete})

count_hours_compliant_days(weekly_patterns) ==
    Cardinality({wd \in all_days(weekly_patterns) :
                    /\ weekly_patterns[wd[1]].days_details[wd[2]].is_complete
                    /\ weekly_patterns[wd[1]].days_details[wd[2]].meets_9h_requirement})

days_status(total_days_attended) ==
    IF total_days_attended >= 6 THEN "compliant"
    ELSE IF total_days_attended >= 4 THEN "partial"
    ELSE "non_compliant"

\* the same with partial only above 80%
hours_status_above_80(valid_days, hours_compliant_days) ==
    IF valid_days = 0 THEN "non_compliant"
    ELSE IF hours_compliant_days = valid_days THEN "compliant"
    ELSE IF 5 * hours_compliant_days > 4 * valid_days THEN "partial"
    ELSE "non_compliant"

\* hours_compliant_days >= valid_days * 0.8 is decided in binary64; for the
\* at most 31 days of a month it is true exactly when
\* 5 * hours_compliant_days >= 4 * valid_days
hours_status(valid_days, hours_compliant_days) ==
    IF valid_days = 0 THEN "non_compliant"
    ELSE IF hours_compliant_days = valid_days THEN "compliant"
    ELSE IF 5 * hours_compliant_days >= 4 * valid_days THEN "partial"
    ELSE "non_compliant"

\* the overall status with a failed pattern making it non-compliant
overall_status_strict(days_compliance, hours_compliance, pattern_compliance) ==
    IF days_compliance = "compliant" /\ hours_compliance = "compliant" /\ pattern_compliance
    THEN "compliant"
    ELSE IF \/ days_compliance = "non_compliant"
            \/ hours_compliance = "non_compliant"
            \/ ~pattern_compliance
    THEN "non_compliant"
    ELSE "partial"

overall_status(days_compliance, hours_compliance, pattern_compliance) ==
    IF days_compliance = "compliant" /\ hours_compliance = "compliant" /\ pattern_compliance
    THEN "compliant"
    ELSE IF days_compliance = "non_compliant" \/ hours_compliance = "non_compliant"
    THEN "non_compliant"
    ELSE "partial"

\* _evaluate_compliance, from the three dimensions
evaluated_compliance(days_compliance, hours_compliance, pattern_compliance) ==
    [days_compliance |-> days_compliance,
     hours_compliance |-> hours_compliance,
     overall_compliance |-> overall_status(days_compliance, hours_compliance,
                                           pattern_compliance),
     pattern_compliance |-> pattern_compliance]

evaluate_compliance(weekly_patterns, total_days_attended, total_hours_worked) ==
    evaluated_compliance(
        days_status(total_days_attended),
        hours_status(count_valid_days(weekly_patterns),
                     count_hours_compliant_days(weekly_patterns)),
        {w \in 1..Len(weekly_patterns) : weekly_patterns[w].days_attended > 2} = {})

\* sum(pattern.days_attended for pattern in weekly_patterns)
RECURSIVE sum_days_attended(_, _)
sum_days_attended(weekly_patterns, n) ==
    IF n = 0 THEN 0
    ELSE sum_days_attended(weekly_patterns, n - 1) + weekly_patterns[n].days_attended

\* sum(pattern.total_hours for pattern in weekly_patterns)
RECURSIVE sum_total_hours(_, _)
sum_total_hours(weekly_patterns, n) ==
    IF n = 0 THEN FZero
    ELSE FAdd(sum_total_hours(weekly_patterns, n - 1), weekly_patterns[n].total_hours)

\* the MonthlyStats built from the weeks, their totals and their evaluation;
\* average_hours_per_day is kept as the quotient it is computed from
monthly_stats(employee_id, month, weekly_patterns, total_days_attended, total_hours_worked, evaluation) ==
    [employee_id |-> employee_id,
     month |-> month,
     total_days_attended |-> total_days_attended,
     total_hours_worked |-> total_hours_worked,
     average_hours_per_day |-> IF total_days_attended > 0
                               THEN <<total_hours_worked, total_days_attended>>
                               ELSE <<FZero, 1>>,
     weekly_patterns |-> weekly_patterns,
     days_compliance |-> evaluation.days_compliance,
     hours_compliance |-> evaluation.hours_compliance,
     overall_compliance |-> evaluation.overall_compliance,
     weeks_with_1_day |->
        Cardinality({w \in 1..Len(weekly_patterns) : weekly_patterns[w].days_attended = 1}),
     weeks_with_2_days |->
        Cardinality({w \in 1..Len(weekly_patterns) : weekly_patterns[w].days_attended = 2}),
     pattern_compliance |-> evaluation.pattern_compliance]

totalled_stats(employee_id, month, weekly_patterns, total_days_attended, total_hours_worked) ==
    monthly_stats(employee_id, month, weekly_patterns, total_days_attended,
                  total_hours_worked,
                  evaluate_compliance(weekly_patterns, total_days_attended,
                                      total_hours_worked))

analyzed_stats(employee_id, month, weekly_patterns) ==
    totalled_stats(employee_id, month, weekly_patterns,
                   sum_days_attended(weekly_patterns, Len(weekly_patterns)),
                   sum_total_hours(weekly_patterns, Len(weekly_patterns)))

\* analyze_employee_month once the records of the month are fetched
analyze_month_records(employee_id, month, parsed) ==
    IF parsed.kind = "raised" THEN parsed
    ELSE Returned(analyzed_stats(employee_id, month,
                                 analyze_weekly_patterns(parsed.value, month)))

\* start_date and end_date of analyze_employee_month
month_start(month) == At(0, 0, 0, 0)
month_end(month) == At(month.days, 0, 0, 0) - 1

----------------------------------------------------------------------------
(* Inputs of the monthly analysis *)

\* how many of the days of MonthDays a punch list may use
NumMonthDays == 7

\* date keys of the month: the 1st, 2nd, 3rd, 8th, 9th, 15th, 31st, 22nd,
\* 28th and 16th
MonthDays == <<0, 1, 2, 7, 8, 14, 30, 21, 27, 15>>
MonthCandidateDays == {MonthDays[i] : i \in 1..NumMonthDays}

MonthPatterns == {"pair8", "single", "trailing", "under9", "over9", "three_exact"}

\* the k earliest days of S
Lowest(S, k) == {d \in S : Cardinality({e \in S : e < d}) < k}

\* the rows of the days in S by ascending time: every day a 09:00-18:00
\* pair, but the days of `odd` with the punches of `pattern`
RECURSIVE MonthPunchList(_, _, _, _, _)
MonthPunchList(S, odd, pattern, kind, day) ==
    IF \A d \in S : d < day THEN <<>>
    ELSE (IF day \in S
          THEN DayPunches(day, IF day \in odd THEN pattern ELSE "pair9", kind)
          ELSE <<>>)
         \o MonthPunchList(S, odd, pattern, kind, day + 1)

MonthShaped(shape, S, odd, pattern) ==
    CASE shape = "db"        -> MonthPunchList(S, odd, pattern, "datetime", 0)
      [] shape = "cache"     -> MonthPunchList(S, odd, pattern, "str", 0)
      [] shape = "unordered" -> Reverse(MonthPunchList(S, odd, pattern, "datetime", 0))

\* the lists of one shape: any set of candidate days, all of them 09:00-18:00
\* pairs but the earliest one or two of them
MonthLists(shape) ==
    {MonthShaped(shape, S, Lowest(S, k), pattern) :
        S \in (SUBSET MonthCandidateDays) \ {{}}, k \in 1..2,
        pattern \in MonthPatterns \cup {"pair9"}}
    \cup {<<>>}

\* fetched and unordered rows, and the cached rows of up to two days
MonthRecords ==
    MonthLists("db") \cup MonthLists("unordered")
    \cup {l \in MonthLists("cache") : Len(l) <= 4}

\* a February of 4 whole weeks, a month of 31 days from a Sunday (6 weeks),
\* a month of 30 days from a Thursday, a month of 31 days from a Friday
Months ==
    {[first_weekday |-> 0, days |-> 28], [first_weekday |-> 6, days |-> 31],
     [first_weekday |-> 3, days |-> 30], [first_weekday |-> 4, days |-> 31]}

InitMonth ==
    /\ attendance_data \in MonthRecords
    /\ start_date = 0
    /\ end_date = 0
    /\ connection = TRUE
    /\ table = <<>>
    /\ cache = <<>>
    /\ request = NoRequest
    /\ outcome = NoOutcome
    /\ response = NoResponse

\* analyze_employee_month on the records the query selected for the month
AnalyzeMonth(month) ==
    /\ outcome = NoOutcome
    /\ \A i \in 1..Len(attendance_data) :
          /\ month_start(month) <= attendance_data[i].FECHA_FICHADA.t
          /\ attendance_data[i].FECHA_FICHADA.t <= month_end(month)
    /\ start_date' = month_start(month)
    /\ end_date' = month_end(month)
    /\ request' = [op |-> "analyze_month", employee_id |-> 1, month |-> month]
    /\ outcome' = analyze_month_records(1, month, parse_daily_attendance(attendance_data))
    /\ UNCHANGED <<attendance_data, connection, table, cache, response>>

NextMonth == \E month \in Months : AnalyzeMonth(month)

SpecMonth == InitMonth /\ [][NextMonth]_vars

----------------------------------------------------------------------------
(* What the claims speak of, computed from the inputs alone *)

Evaluated == outcome.kind = "returned" /\ attendance_data # <<>>
Rule1 == outcome.value.details.rule_1_minimum_days
Rule2 == outcome.value.details.rule_2_weekly_distribution
Rule3 == outcome.value.details.rule_3_minimum_hours

\* instants of the punches inside [start_date, end_date]
InPeriodTimes ==
    {attendance_data[i].FECHA_FICHADA.t : i \in
        {j \in 1..Len(attendance_data) :
            /\ attendance_data[j].FECHA_FICHADA.kind \in {"datetime", "str"}
            /\ attendance_data[j].FECHA_FICHADA.t >= start_date
            /\ attendance_data[j].FECHA_FICHADA.t <= end_date}}

\* calendar dates with at least one in-period punch
AttendedDates == {t \div (24 * 3600) : t \in InPeriodTimes}

TimesOn(date) == {t \in InPeriodTimes : t \div (24 * 3600) = date}

\* a set of instants in ascending order
Ascending(T) ==
    [i \in 1..Cardinality(T) |-> CHOOSE t \in T : Cardinality({u \in T : u < t}) = i - 1]

\* elapsed seconds over the pairs 1st+2nd, 3rd+4th, ... of an ascending sequence
RECURSIVE PairedSeconds(_, _)
PairedSeconds(ts, i) ==
    IF i + 1 > Len(ts) THEN 0 ELSE (ts[i + 1] - ts[i]) + PairedSeconds(ts, i + 2)

WorkedSeconds(date) == PairedSeconds(Ascending(TimesOn(date)), 1)

DatesWithEightHours == {d \in AttendedDates : WorkedSeconds(d) >= 8 * 3600}

\* the 7-day block, counted from the period start, an instant falls in
BlockOf(t) == ((t - start_date) \div (7 * 24 * 3600)) + 1

\* the number of 7-day blocks that overlap [start_date, end_date]
BlocksInPeriod == ((end_date - start_date) \div (7 * 24 * 3600)) + 1

AttendedBlocks == {BlockOf(t) : t \in InPeriodTimes}

----------------------------------------------------------------------------
(* Claims about the rule evaluation, under SpecRules *)

\* C1: the overall verdict of the rule-based path is true exactly when
\* Rule 1, Rule 2 and Rule 3 are all compliant.
C1_OverallIsConjunction ==
    Evaluated =>
        (outcome.value.compliance <=>
            (Rule1.compliant /\ Rule2.compliant /\ Rule3.compliant))

\* Rules 1 and 2 pass, Rule 3 alone fails, and the verdict is non-compliant
C1_Witness ==
    /\ Evaluated
    /\ Rule1.compliant /\ Rule2.compliant /\ ~Rule3.compliant
    /\ ~outcome.value.compliance

\* C2: Rule 1 is compliant exactly when at least 6 distinct calendar dates
\* have an in-period punch, complete pair or not.
C2_MinimumDays ==
    Evaluated =>
        /\ Rule1.days_attended = Cardinality(AttendedDates)
        /\ Rule1.compliant <=> (Cardinality(AttendedDates) >= 6)

\* exactly 6 attended dates, one of them with a single punch, is compliant
C2_Witness ==
    /\ Evaluated
    /\ Cardinality(AttendedDates) = 6
    /\ \E d \in AttendedDates : Cardinality(TimesOn(d)) = 1
    /\ Rule1.compliant

\* C3: whenever Rule 2 is compliant, every 7-day block counted from the
\* period start that overlaps the period holds an attended date, whatever
\* the start time of day.  Stated here for the periods of at most 5 blocks,
\* where the cap of 5 on the required week count plays no part.
C3_EveryBlockAttended ==
    (Evaluated /\ Rule2.compliant /\ BlocksInPeriod <= 5) =>
        \A k \in 1..BlocksInPeriod : k \in AttendedBlocks

\* the week numbers of the attended dates, as the claim computes them:
\* floor(whole days from the period start to the date / 7) + 1
WeekIndexOf(date) == (((date * 24 * 3600 - start_date) \div (24 * 3600)) \div 7) + 1
AttendedWeekIndices == {WeekIndexOf(d) : d \in AttendedDates}

\* floor(days(end - start) / 7) + 1, capped at 5 and never below 1
RequiredWeeks ==
    LET blocks == (((end_date - start_date) \div (24 * 3600)) \div 7) + 1
    IN  IF blocks > 5 THEN 5 ELSE IF blocks < 1 THEN 1 ELSE blocks

C5_MinimumHours ==
    Evaluated =>
        /\ Rule3.days_meeting_hours = Cardinality(DatesWithEightHours)
        /\ Rule3.compliant <=> (Cardinality(DatesWithEightHours) >= 6)

\* the C6 scenario: a 30-day period, punches on 6 distinct dates, each date
\* one pair of exactly 8 hours, the dates in exactly 3 distinct 7-day blocks
C6_Scenario ==
    /\ Evaluated
    /\ end_date - start_date = 30 * 24 * 3600
    /\ \A i \in 1..Len(attendance_data) :
          attendance_data[i].FECHA_FICHADA.t \in InPeriodTimes
    /\ Cardinality(AttendedDates) = 6
    /\ \A d \in AttendedDates :
          /\ Cardinality(TimesOn(d)) = 2
          /\ WorkedSeconds(d) = 8 * 3600
          /\ Cardinality({BlockOf(t) : t \in TimesOn(d)}) = 1
    /\ Cardinality(AttendedBlocks) = 3

LabelledReason(n) ==
    CASE n = 1 -> <<"Regla 1:", Rule1.reason>>
      [] n = 2 -> <<"Regla 2:", Rule2.reason>>
      [] n = 3 -> <<"Regla 3:", Rule3.reason>>

RuleCompliant(n) ==
    CASE n = 1 -> Rule1.compliant
      [] n = 2 -> Rule2.compliant
      [] n = 3 -> Rule3.compliant

\* the failing rules in rule order
FailingRules ==
    LET F == {n \in 1..3 : ~RuleCompliant(n)}
    IN  [i \in 1..Cardinality(F) |->
            CHOOSE n \in F : Cardinality({m \in F : m < n}) = i - 1]

\* C11: a non-compliant rule-based verdict has as reason the reasons of
\* exactly the failing rules, in rule order 1, 2, 3, each behind its rule
\* label and otherwise unchanged, joined by "; "; a compliant verdict has
\* the fixed message that all rules are met.
C11_ReasonListsFailingRules ==
    Evaluated =>
        IF outcome.value.compliance
        THEN outcome.value.reason = << <<"Cumple con todas las reglas">> >>
        ELSE /\ Len(outcome.value.reason) = 2 * Len(FailingRules) - 1
             /\ \A i \in 1..Len(FailingRules) :
                   outcome.value.reason[2 * i - 1] = LabelledReason(FailingRules[i])
             /\ \A i \in 1..(Len(FailingRules) - 1) :
                   outcome.value.reason[2 * i] = "; "

\* 3 attended dates inside the one week of a period: Rule 1 fails and leads
\* the reason, Rule 2 passes and is not in it
C11_Witness ==
    /\ Evaluated
    /\ Cardinality(AttendedDates) = 3 /\ Cardinality(AttendedBlocks) = 1
    /\ ~outcome.value.compliance
    /\ ~Rule1.compliant /\ Rule2.compliant /\ ~Rule3.compliant
    /\ outcome.value.reason =
          <<LabelledReason(1), "; ", LabelledReason(3)>>

----------------------------------------------------------------------------
(* Claims about the two entry points, under Spec *)

\* a request arrives and is served in one step
SingleCall == request = NoRequest /\ request'.op = "single"
BatchCall == request = NoRequest /\ request'.op = "batch"

\* connect is attempted, and fails
ConnectFails == ~connection /\ ~request'.connect_ok

\* the cache holds a non-empty row list for the employee and the period:
\* the fetch returns it and the database is not asked
CacheServes(e) ==
    /\ <<e, start_date \div (24 * 3600), end_date \div (24 * 3600)>> \in DOMAIN cache
    /\ cache[<<e, start_date \div (24 * 3600), end_date \div (24 * 3600)>>] # <<>>

\* positions of the employee's rows the query selects
SelectedRows(e) ==
    {i \in 1..Len(table[e]) :
        /\ table[e][i].FECHA_FICHADA.t >= start_date
        /\ table[e][i].FECHA_FICHADA.t <= end_date
        /\ table[e][i].IGNORAR = 0}

\* the verdict of the except branch of the batch loop
IsFailedVerdict(v, e) ==
    /\ v.employee_id = e
    /\ v.compliance = FALSE
    /\ v.reason = << <<"Error al verificar cumplimiento:", FetchError>> >>
    /\ DOMAIN v.details = {}

\* the employee evaluated alone with a working database, over the cache as
\* the batch found it or as the batch left it
AloneVerdicts(e) ==
    {check_employee_compliance(TRUE, c, table[e], e, start_date, end_date,
                               TRUE, TRUE).outcome.value : c \in {cache, cache'}}

\* C7: a batch over N employee ids in which the fetch raises for some of
\* them returns exactly N verdicts in input order; the verdict of a failing
\* employee is non-compliant with the error text in its reason, and every
\* other verdict equals the verdict of that employee evaluated alone.  The
\* fetch of an id raises when the database fails and the cache does not
\* serve the id.
C7_BatchIsolatesFailures ==
    [][(BatchCall /\ outcome'.kind = "returned") =>
          LET ids == request'.employee_ids
          IN  /\ Len(outcome'.value) = Len(ids)
              /\ Len(request'.raised) = Len(ids)
              /\ \A i \in 1..Len(ids) :
                    /\ outcome'.value[i].employee_id = ids[i]
                    /\ request'.raised[i] => ~request'.db_ok[i]
                    /\ (~request'.db_ok[i] /\ ~CacheServes(ids[i])
                           /\ \A j \in 1..(i - 1) : ids[j] # ids[i])
                          => request'.raised[i]
                    /\ IF request'.raised[i]
                       THEN IsFailedVerdict(outcome'.value[i], ids[i])
                       ELSE outcome'.value[i] \in AloneVerdicts(ids[i])]_vars

\* a batch of 3 in which exactly one fetch raised and another employee is
\* judged compliant
C7_Witness ==
    /\ request.op = "batch"
    /\ outcome.kind = "returned"
    /\ Len(request.employee_ids) = 3 /\ Len(outcome.value) = 3
    /\ Cardinality({i \in 1..3 : request.raised[i]}) = 1
    /\ \E i \in 1..3 : ~request.raised[i] /\ outcome.value[i].compliance

\* C8 as stated: a batch call over one employee id or more always completes
\* with one verdict per employee, whatever connectivity error the data
\* source raises, a failure to establish the connection at the start of the
\* batch included.
C8_BatchNeverRaises ==
    (request.op = "batch" /\ Len(request.employee_ids) >= 1) =>
        /\ outcome.kind = "returned"
        /\ Len(outcome.value) = Len(request.employee_ids)

\* C8 amended: a failure to establish the connection at the start of the
\* batch is raised to the caller, no verdict is returned and nothing is
\* changed; once the connection stands, an error raised by the fetch of an
\* employee becomes that employee's failed verdict and the batch completes
\* with one verdict per employee.
C8_ConnectFailureRaised ==
    [][BatchCall =>
          IF ConnectFails
          THEN /\ outcome' = Raised(ConnectError)
               /\ UNCHANGED <<connection, cache>>
          ELSE /\ outcome'.kind = "returned"
               /\ connection'
               /\ Len(outcome'.value) = Len(request'.employee_ids)
               /\ \A i \in 1..Len(request'.employee_ids) :
                     request'.raised[i] =>
                         IsFailedVerdict(outcome'.value[i], request'.employee_ids[i])]_vars

\* a batch over at least one employee whose connect failed: the call raised
C8_Witness ==
    /\ request.op = "batch"
    /\ Len(request.employee_ids) >= 1
    /\ ~request.connect_ok /\ ~connection
    /\ outcome = Raised(ConnectError)

\* C9: the single-employee evaluation raises every error of connect and of
\* the fetch to its caller: then it returns no verdict, and in particular
\* no non-compliant one.
C9_SinglePropagatesErrors ==
    [][SingleCall =>
          LET e == request'.employee_id
              fetch_fails == ~ConnectFails /\ ~request'.db_ok /\ ~CacheServes(e)
          IN  /\ ConnectFails => outcome' = Raised(ConnectError)
              /\ fetch_fails => outcome' = Raised(FetchError)
              /\ (ConnectFails \/ fetch_fails) => outcome'.kind # "returned"
              /\ outcome'.kind = "raised" => (ConnectFails \/ fetch_fails)]_vars

\* a single evaluation whose connect succeeded and whose fetch raised
C9_Witness ==
    /\ request.op = "single"
    /\ request.connect_ok /\ ~request.db_ok
    /\ connection
    /\ outcome = Raised(FetchError)

\* C10: when the fetch returns no rows, check_employee_compliance returns
\* a verdict with compliance false, the no-data reason and empty details:
\* no result of any of the three rules is in it.
C10_NoDataVerdict ==
    [][(/\ SingleCall
        /\ ~ConnectFails
        /\ request'.db_ok
        /\ ~CacheServes(request'.employee_id)
        /\ SelectedRows(request'.employee_id) = {}) =>
          /\ outcome'.kind = "returned"
          /\ outcome'.value.employee_id = request'.employee_id
          /\ outcome'.value.compliance = FALSE
          /\ outcome'.value.reason = << <<"No hay datos de asistencia en el periodo">> >>
          /\ DOMAIN outcome'.value.details = {}]_vars

\* an employee whose rows all lie outside the period gets the no-data verdict
C10_Witness ==
    /\ request.op = "single"
    /\ table[request.employee_id] # <<>>
    /\ outcome.kind = "returned"
    /\ outcome.value.reason = << <<"No hay datos de asistencia en el periodo">> >>
    /\ outcome.value.details = <<>>

\* the exchange of the first two neighbours of ids that stand in descending
\* order (none when ids is ascending).  Repeating it sorts ids, so any two
\* arrangements of the same ids are linked through their sorted list by
\* such exchanges.
Rearrangements(ids) ==
    {[i \in 1..Len(ids) |-> IF i = k THEN k + 1 ELSE IF i = k + 1 THEN k ELSE i] :
        k \in {j \in 1..(Len(ids) - 1) :
                  /\ ids[j] > ids[j + 1]
                  /\ \A h \in 1..(j - 1) : ids[h] <= ids[h + 1]}}

Permuted(seq, p) == [i \in 1..Len(seq) |-> seq[p[i]]]

\* the summary of the batch asked from the same state with the id list
\* rearranged by p, every id keeping the fate of its fetch
PermutedSummary(p) ==
    batch_response(Permuted(request'.employee_ids, p), start_date, end_date,
        check_multiple_employees_compliance(connection, cache, table,
            Permuted(request'.employee_ids, p), start_date, end_date,
            request'.connect_ok, Permuted(request'.db_ok, p)).outcome).body

\* C12: in the batch summary compliant_employees + non_compliant_employees
\* = total_employees = the number of returned verdicts, and both counts
\* are the same for every rearrangement of the employee id list (an id
\* asked for twice has one fate for both of its fetches).  Every id list
\* is asked from every state, so the counts being kept by the exchange that
\* brings a list one step nearer its sorted list keeps them under every
\* rearrangement.
C12_SummaryCounts ==
    [][(BatchCall /\ response'.status = 200) =>
          LET ids == request'.employee_ids
              body == response'.body
          IN  /\ body.compliant_employees + body.non_compliant_employees
                    = body.total_employees
              /\ body.total_employees = Len(body.results)
              /\ body.total_employees = Len(ids)
              /\ body.results = outcome'.value
              /\ (\A i, j \in 1..Len(ids) :
                     ids[i] = ids[j] => request'.db_ok[i] = request'.db_ok[j])
                  => \A p \in Rearrangements(ids) :
                        \A rearranged \in {PermutedSummary(p)} :
                           /\ rearranged.compliant_employees
                                 = body.compliant_employees
                           /\ rearranged.non_compliant_employees
                                 = body.non_compliant_employees]_vars

\* a batch of 3 answered with 1 compliant and 2 non-compliant employees,
\* one of them because its fetch raised
C12_Witness ==
    /\ request.op = "batch"
    /\ response.status = 200
    /\ response.body.total_employees = 3
    /\ response.body.compliant_employees = 1
    /\ response.body.non_compliant_employees = 2
    /\ \E i \in 1..3 : request.raised[i]

----------------------------------------------------------------------------
(* Claims about the monthly analysis, under SpecMonth *)

\* a month was analysed from punches the database returned
Analysed == request.op = "analyze_month" /\ outcome.kind = "returned"
Stats == outcome.value

AllDimensionsCompliant ==
    /\ Stats.days_compliance = "compliant"
    /\ Stats.hours_compliance = "compliant"
    /\ Stats.pattern_compliance

\* C13 as claimed: the overall status is compliant only if days, hours and
\* pattern are all compliant, non-compliant if any one of the three is
\* non-compliant (a failed pattern among them), partial in every other case.
C13_AnyDimensionFails ==
    Analysed =>
        /\ Stats.overall_compliance = "compliant" => AllDimensionsCompliant
        /\ (\/ Stats.days_compliance = "non_compliant"
            \/ Stats.hours_compliance = "non_compliant"
            \/ ~Stats.pattern_compliance)
              => Stats.overall_compliance = "non_compliant"
        /\ (/\ ~AllDimensionsCompliant
            /\ Stats.days_compliance # "non_compliant"
            /\ Stats.hours_compliance # "non_compliant"
            /\ Stats.pattern_compliance)
              => Stats.overall_compliance = "partial"

\* C13 amended: the overall status is compliant exactly when days, hours and
\* pattern are all compliant, non-compliant exactly when days or hours is
\* non-compliant, and partial in every other case, a failed pattern with
\* days and hours not non-compliant among them.
C13_OverallStatus ==
    Analysed =>
        /\ Stats.overall_compliance = "compliant" <=> AllDimensionsCompliant
        /\ Stats.overall_compliance = "non_compliant"
              <=> (\/ Stats.days_compliance = "non_compliant"
                   \/ Stats.hours_compliance = "non_compliant")
        /\ Stats.overall_compliance \in {"compliant", "non_compliant", "partial"}

\* days and hours compliant, a week of 3 complete days: reported partial
C13_Witness ==
    /\ Analysed
    /\ Stats.days_compliance = "compliant"
    /\ Stats.hours_compliance = "compliant"
    /\ ~Stats.pattern_compliance
    /\ Stats.overall_compliance = "partial"

\* the dates with exactly 2 punches among the records
CompleteDates ==
    {d \in AttendedDates :
        Cardinality({i \in 1..Len(attendance_data) :
                        DateKey(attendance_data[i].FECHA_FICHADA.t) = d}) = 2}

\* the complete dates with at least 9 hours between their two punches
NineHourDates == {d \in CompleteDates : WorkedSeconds(d) >= 9 * SecondsPerHour}

\* C14: the days status is compliant iff the month has 6 or more complete
\* days, partial iff 4 or 5, non-compliant iff 3 or fewer; the hours status
\* is compliant iff there is a complete day and every complete day has 9
\* hours, partial iff not all but at least 80% of the complete days have,
\* non-compliant otherwise, with no complete day among the cases.
C14_DimensionThresholds ==
    Analysed =>
        LET n == Cardinality(CompleteDates)
            k == Cardinality(NineHourDates)
        IN  /\ Stats.days_compliance = "compliant" <=> n >= 6
            /\ Stats.days_compliance = "partial" <=> n \in {4, 5}
            /\ Stats.days_compliance = "non_compliant" <=> n <= 3
            /\ Stats.hours_compliance = "compliant" <=> (n >= 1 /\ k = n)
            /\ Stats.hours_compliance = "partial" <=> (k < n /\ 5 * k >= 4 * n)
            /\ Stats.hours_compliance = "non_compliant" <=> (n = 0 \/ 5 * k < 4 * n)

\* 5 complete days, 4 of them of 9 hours: exactly 80%
C14_Witness ==
    /\ Analysed
    /\ Cardinality(CompleteDates) = 5
    /\ Cardinality(NineHourDates) = 4
    /\ Stats.days_compliance = "partial"
    /\ Stats.hours_compliance = "partial"

Weeks == Stats.weekly_patterns

RECURSIVE SeqSum(_)
SeqSum(s) == IF s = <<>> THEN 0 ELSE s[1] + SeqSum(Tail(s))

\* the weeks whose days, from week_start to week_end, include date key d
WeeksHolding(d) ==
    {w \in 1..Len(Weeks) : DateKey(Weeks[w].week_start) <= d /\ d <= DateKey(Weeks[w].week_end)}

RECURSIVE CompleteHours(_, _)
CompleteHours(details, n) ==
    IF n = 0 THEN FZero
    ELSE IF details[n].is_complete
    THEN FAdd(CompleteHours(details, n - 1), details[n].hours_worked)
    ELSE CompleteHours(details, n - 1)

CompleteEntries(details) == {i \in 1..Len(details) : details[i].is_complete}

\* C16: each week holds one entry for each of its dates that has a punch;
\* its days_attended is the number of its entries with is_complete true, its
\* total_hours the sum of the hours_worked of those entries, and
\* meets_pattern_requirement is true exactly when days_attended is 1 or 2.
C16_WeekTotals ==
    Analysed =>
        \A w \in 1..Len(Weeks) :
            LET details == Weeks[w].days_details
            IN  /\ {DateKey(details[i].date) : i \in 1..Len(details)}
                      = {d \in AttendedDates : w \in WeeksHolding(d)}
                /\ \A i, j \in 1..Len(details) : i < j => details[i].date < details[j].date
                /\ Weeks[w].days_attended = Cardinality(CompleteEntries(details))
                /\ Weeks[w].total_hours = CompleteHours(details, Len(details))
                /\ Weeks[w].meets_pattern_requirement <=> Weeks[w].days_attended \in {1, 2}

\* a month with a week of 3 complete days, a week whose only entry is an
\* incomplete day and a week of 1 or 2 complete days
C16_Witness ==
    /\ Analysed
    /\ \E w \in 1..Len(Weeks) :
          Weeks[w].days_attended = 3 /\ ~Weeks[w].meets_pattern_requirement
    /\ \E w \in 1..Len(Weeks) :
          /\ Weeks[w].days_attended = 0
          /\ Weeks[w].days_details # <<>>
          /\ ~Weeks[w].meets_pattern_requirement
    /\ \E w \in 1..Len(Weeks) :
          Weeks[w].days_attended \in {1, 2} /\ Weeks[w].meets_pattern_requirement

\* where the DailyAttendance entries of date d stand in the weeks
EntriesOf(d) ==
    {wi \in UNION {{<<w, i>> : i \in 1..Len(Weeks[w].days_details)} : w \in 1..Len(Weeks)} :
        Weeks[wi[1]].days_details[wi[2]].date = ParseDateKey(d)}

EntryAt(wi) == Weeks[wi[1]].days_details[wi[2]]

Datetime(t) == [kind |-> "datetime", t |-> t]

\* the number of records of date d
RecordsOn(d) ==
    Cardinality({i \in 1..Len(attendance_data) :
                    DateKey(attendance_data[i].FECHA_FICHADA.t) = d})

\* C17: a date with exactly 2 punches, in whatever order they arrive, gets
\* one DailyAttendance: is_complete true, entry_time the earlier punch,
\* exit_time the later one, hours_worked the elapsed seconds between them
\* divided by 3600 (the binary64 number nearest to it), never negative.
C17_TwoPunchDay ==
    Analysed =>
        \A d \in {e \in AttendedDates : RecordsOn(e) = 2} :
            /\ Cardinality(EntriesOf(d)) = 1
            /\ \A wi \in EntriesOf(d) :
                  LET times == Ascending(TimesOn(d))
                  IN  /\ EntryAt(wi).is_complete
                      /\ EntryAt(wi).entry_time = Datetime(times[1])
                      /\ EntryAt(wi).exit_time = Datetime(times[2])
                      /\ times[2] - times[1] >= 0
                      /\ EntryAt(wi).hours_worked = FDivHours(times[2] - times[1])

\* the punches arrive latest first, and a date has the two punches 08:50 and
\* 18:00, whose 9 hours 10 minutes are no whole number of hours
C17_Witness ==
    /\ Analysed
    /\ Len(attendance_data) >= 2
    /\ attendance_data[1].FECHA_FICHADA.t > attendance_data[2].FECHA_FICHADA.t
    /\ \E d \in AttendedDates :
          /\ RecordsOn(d) = 2
          /\ WorkedSeconds(d) = 9 * SecondsPerHour + 600
          /\ \E wi \in EntriesOf(d) : EntryAt(wi).hours_worked[6] = 9

\* the hours_worked of the complete entries of other dates than `date` among
\* the first n of a week, added in that order as binary64 numbers
RECURSIVE HoursExcept(_, _, _)
HoursExcept(details, n, date) ==
    IF n = 0 THEN FZero
    ELSE IF details[n].is_complete /\ details[n].date # date
    THEN FAdd(HoursExcept(details, n - 1, date), details[n].hours_worked)
    ELSE HoursExcept(details, n - 1, date)

\* C18: a date with exactly 1 punch gets one DailyAttendance: is_complete
\* false, entry_time that punch, exit_time and hours_worked absent,
\* meets_9h_requirement false; and its week's days_attended and total_hours
\* are the count and the hours of the complete entries of the other dates.
C18_OnePunchDay ==
    Analysed =>
        \A d \in {e \in AttendedDates : RecordsOn(e) = 1} :
            /\ Cardinality(EntriesOf(d)) = 1
            /\ \A wi \in EntriesOf(d) :
                  LET details == Weeks[wi[1]].days_details
                  IN  /\ ~EntryAt(wi).is_complete
                      /\ \A t \in TimesOn(d) : EntryAt(wi).entry_time = Datetime(t)
                      /\ EntryAt(wi).exit_time = None
                      /\ EntryAt(wi).hours_worked = NoHours
                      /\ ~EntryAt(wi).meets_9h_requirement
                      /\ wi[1] \in WeeksHolding(d)
                      /\ Weeks[wi[1]].days_attended
                            = Cardinality({i \in CompleteEntries(details) :
                                              details[i].date # ParseDateKey(d)})
                      /\ Weeks[wi[1]].total_hours
                            = HoursExcept(details, Len(details), ParseDateKey(d))

\* a date with one punch in a week that has a complete day too
C18_Witness ==
    /\ Analysed
    /\ \E d \in AttendedDates :
          /\ RecordsOn(d) = 1
          /\ \E w \in WeeksHolding(d) :
                /\ Weeks[w].days_attended = 1
                /\ Len(Weeks[w].days_details) = 2
                /\ Weeks[w].total_hours[6] = 9

\* C19: a date with more than 2 punches gets one DailyAttendance whose
\* hours_worked are the hours of the pairs 1st+2nd, 3rd+4th, ... of its
\* punches by time, an unpaired last punch left out, as the rule-based
\* path adds them in _day_meets_minimum_hours.
C19_SequentialPairing ==
    Analysed =>
        \A d \in {e \in AttendedDates : RecordsOn(e) > 2} :
            /\ Cardinality(EntriesOf(d)) = 1
            /\ \A wi \in EntriesOf(d) :
                  EntryAt(wi).hours_worked
                     = sum_pair_hours(sorted_by_fecha(daily_records(attendance_data, d)),
                                      0, FZero)

\* C20: meets_9h_requirement of a date is true exactly when the date is
\* complete with 9 hours or more between its two punches, while the
\* rule-based path counts a date of two punches from 8 hours on; a date of
\* one pair of 8 hours or more and less than 9 meets the minimum hours of
\* Rule 3 and has meets_9h_requirement false.
C20_DistinctThresholds ==
    Analysed =>
        \A d \in AttendedDates :
            \A wi \in EntriesOf(d) :
                /\ EntryAt(wi).meets_9h_requirement
                      <=> (RecordsOn(d) = 2 /\ WorkedSeconds(d) >= 9 * SecondsPerHour)
                /\ RecordsOn(d) = 2 =>
                      (day_meets_minimum_hours(daily_records(attendance_data, d))
                          <=> WorkedSeconds(d) >= 8 * SecondsPerHour)

\* a date of one pair of exactly 8 hours and a date of one pair one second
\* short of 9 hours, both without meets_9h_requirement, and a date of 9 hours
C20_Witness ==
    /\ Analysed
    /\ \E d \in AttendedDates :
          /\ RecordsOn(d) = 2
          /\ WorkedSeconds(d) \in {8 * SecondsPerHour, 9 * SecondsPerHour - 1}
          /\ day_meets_minimum_hours(daily_records(attendance_data, d))
          /\ \A wi \in EntriesOf(d) :
                EntryAt(wi).is_complete /\ ~EntryAt(wi).meets_9h_requirement
    /\ \E d \in AttendedDates :
          /\ WorkedSeconds(d) = 9 * SecondsPerHour
          /\ \A wi \in EntriesOf(d) : EntryAt(wi).meets_9h_requirement

----------------------------------------------------------------------------
(* Claims about _group_by_day, under SpecRules *)

DailyGroups == outcome.value.details.daily_attendance

\* the records of date d inside the period, in the order of arrival
ArrivedOn(d) ==
    SelectSeq(attendance_data,
              LAMBDA r : /\ r.FECHA_FICHADA.kind \in {"datetime", "str"}
                         /\ r.FECHA_FICHADA.t >= start_date
                         /\ r.FECHA_FICHADA.t <= end_date
                         /\ DateKey(r.FECHA_FICHADA.t) = d)

InAscendingOrder(records) ==
    \A i, j \in 1..Len(records) :
        i < j => records[i].FECHA_FICHADA.t <= records[j].FECHA_FICHADA.t

\* C23 as claimed: _group_by_day maps each date to its punches in ascending
\* timestamp order, for every punch list, the unordered ones among them.
C23_GroupsAscending ==
    Evaluated => \A d \in DOMAIN DailyGroups : InAscendingOrder(DailyGroups[d])

\* C23 amended: _group_by_day maps each date to its in-period punches in
\* the order of their arrival, which is ascending when the punch list
\* arrives in ascending order.
C23_GroupsInArrivalOrder ==
    Evaluated =>
        /\ \A d \in DOMAIN DailyGroups : DailyGroups[d] = ArrivedOn(d)
        /\ InAscendingOrder(attendance_data)
              => \A d \in DOMAIN DailyGroups : InAscendingOrder(DailyGroups[d])

\* a list that arrives latest first: the exit of a date is grouped before
\* its entry
C23_Witness ==
    /\ Evaluated
    /\ ~InAscendingOrder(attendance_data)
    /\ \E d \in DOMAIN DailyGroups :
          /\ Len(DailyGroups[d]) = 2
          /\ DailyGroups[d][1].FECHA_FICHADA.t > DailyGroups[d][2].FECHA_FICHADA.t

\* C28: in the rule-based path the days that meet the minimum hours are among
\* the attended days and both rules ask for 6 of them, so Rule 3 compliant
\* implies Rule 1 compliant; the overall verdict therefore equals Rule 2 and
\* Rule 3, and no verdict has Rule 1 as its only failing rule.
C28_Rule3ImpliesRule1 ==
    Evaluated =>
        /\ Rule3.days_meeting_hours <= Rule1.days_attended
        /\ Rule3.min_days_required = Rule1.min_required
        /\ Rule3.compliant => Rule1.compliant
        /\ outcome.value.compliance <=> (Rule2.compliant /\ Rule3.compliant)
        /\ ~(~Rule1.compliant /\ Rule2.compliant /\ Rule3.compliant)

\* Rule 1 fails with 5 attended days, all of them meeting the minimum hours,
\* and Rule 3 fails with it
C28_Witness ==
    /\ Evaluated
    /\ Rule1.days_attended = 5 /\ Rule3.days_meeting_hours = 5
    /\ ~Rule1.compliant /\ ~Rule3.compliant

\* C29: every date that _group_by_day grouped as in-period gets from
\* _check_weekly_distribution a week number in 1..B, B the uncapped number of
\* 7-day blocks of the period, also when the period starts after midnight;
\* no in-period date gets week 0 or a negative week.
C29_WeekNumberInBlocks ==
    Evaluated =>
        \A date_key \in DOMAIN DailyGroups :
            week_number(date_key, start_date) \in 1..BlocksInPeriod

\* the punches whose timestamp is a datetime or a string strptime parses
Usable == SelectSeq(attendance_data, LAMBDA r : r.FECHA_FICHADA.kind \in {"datetime", "str"})

\* the usable punches with start_date <= timestamp <= end_date
WithinPeriod ==
    SelectSeq(Usable, LAMBDA r : start_date <= r.FECHA_FICHADA.t /\ r.FECHA_FICHADA.t <= end_date)

\* C24: _group_by_day groups exactly the punches with
\* start <= timestamp <= end, a punch exactly at start or at end included,
\* and no other punch; in-period + out-of-period counts the punches with a
\* usable timestamp and processed = in-period.
C24_InclusivePeriodFilter ==
    Evaluated =>
        \A counted \in {group_by_day_counts(attendance_data, start_date, end_date)} :
            /\ counted.daily_groups = DailyGroups
            /\ DOMAIN DailyGroups = {DateKey(WithinPeriod[i].FECHA_FICHADA.t) : i \in 1..Len(WithinPeriod)}
            /\ \A d \in DOMAIN DailyGroups :
                  DailyGroups[d] = SelectSeq(WithinPeriod, LAMBDA r : DateKey(r.FECHA_FICHADA.t) = d)
            /\ counted.records_in_period = Len(WithinPeriod)
            /\ counted.records_in_period + counted.records_outside_period = Len(Usable)
            /\ counted.records_processed = counted.records_in_period

\* punches exactly at start and exactly at end are grouped, others fall
\* outside the period, and two rows have no usable timestamp
C24_Witness ==
    /\ Evaluated
    /\ \E d \in DOMAIN DailyGroups : DailyGroups[d][1].FECHA_FICHADA.t = start_date
    /\ \E d \in DOMAIN DailyGroups : DailyGroups[d][Len(DailyGroups[d])].FECHA_FICHADA.t = end_date
    /\ Len(Usable) < Len(attendance_data)
    /\ Len(WithinPeriod) < Len(Usable)

----------------------------------------------------------------------------
(* Claims about anomalous punches and absent weeks, under SpecMonth *)

\* the rows whose timestamp is not a datetime
NotDatetime == SelectSeq(attendance_data, LAMBDA r : r.FECHA_FICHADA.kind # "datetime")

\* C22: a data-quality anomaly (a timestamp that is unparseable or not a
\* datetime, an odd trailing punch, a negative duration) is never fatal:
\* the month analysis returns a result instead of raising, and a row whose
\* timestamp is not a datetime adds nothing to the hours worked.
C22_AnomalyNeverFatal ==
    request.op = "analyze_month" =>
        /\ outcome.kind = "returned"
        /\ NotDatetime # <<>> =>
              \A d \in {DateKey(NotDatetime[i].FECHA_FICHADA.t) : i \in 1..Len(NotDatetime)} :
                  \A wi \in EntriesOf(d) : EntryAt(wi).hours_worked = NoHours

\* C25: in the monthly path no week may be left without attendance: when a
\* calendar week of the month has zero attended days, pattern_compliance is
\* not true and the overall status is not compliant.
C25_NoWeekWithoutAttendance ==
    (Analysed /\ \E w \in 1..Len(Weeks) : Weeks[w].days_attended = 0) =>
        /\ ~Stats.pattern_compliance
        /\ Stats.overall_compliance # "compliant"

----------------------------------------------------------------------------
(* AttendanceAnalyzer on the DatabaseManager: month analysis and report *)

\* how many employees CRONOS.PERSONA holds; the attendance table has the
\* punches of one employee more, who has no row in CRONOS.PERSONA
NumStaff == 2
Staff == 1..NumStaff
Punched == 1..(NumStaff + 1)

\* the month of the requests: 31 days from a Sunday
ReportMonth == [first_weekday |-> 6, days |-> 31]

Flagged(r) == [r EXCEPT !.IGNORAR = 1]
Unset(r) == [r EXCEPT !.IGNORAR = Null]

\* 09:00-18:00 on each day of the list
RECURSIVE NineHourRows(_)
NineHourRows(days) ==
    IF days = <<>> THEN <<>>
    ELSE <<Punch("datetime", At(Head(days), 9, 0, 0)),
           Punch("datetime", At(Head(days), 18, 0, 0))>> \o NineHourRows(Tail(days))

\* the rows of one employee by ascending time: six days of 9 hours with a
\* flagged punch at 13:00 of the first day and a flagged pair on a day of
\* its own; four days of 9 hours and a day with one punch, their IGNORAR
\* NULL; a day with one punch, its second punch flagged; no rows
StaffRows(n) ==
    CASE n = 0 -> <<Punch("datetime", At(0, 9, 0, 0)),
                    Flagged(Punch("datetime", At(0, 13, 0, 0))),
                    Punch("datetime", At(0, 18, 0, 0))>>
                  \o NineHourRows(<<1, 7, 8, 14, 15>>)
                  \o <<Flagged(Punch("datetime", At(21, 9, 0, 0))),
                       Flagged(Punch("datetime", At(21, 18, 0, 0)))>>
      [] n = 1 -> [i \in 1..9 |->
                      Unset((NineHourRows(<<1, 7>>)
                             \o <<Punch("datetime", At(9, 9, 0, 0))>>
                             \o NineHourRows(<<14, 21>>))[i])]
      [] n = 2 -> <<Punch("datetime", At(2, 9, 0, 0)),
                    Flagged(Punch("datetime", At(2, 18, 0, 0)))>>
      [] n = 3 -> <<>>

\* the attendance table
StaffTable == [e \in Punched |-> StaffRows((e - 1) % 4)]

Apellidos == <<"Alvarez", "Benitez", "Castro", "Dominguez", "Estevez", "Fernandez">>

\* a row of CRONOS.PERSONA
Persona(e) == [ID_PERSONA |-> e, NOMBRE |-> "Ana", APELLIDO |-> Apellidos[e],
               EMAIL |-> "ana@example.org"]

\* SELECT ... FROM CRONOS.PERSONA ORDER BY APELLIDO, NOMBRE
query_employees == [e \in Staff |-> Persona(e)]

employees_cache_key == <<"employees">>

\* get_all_employees: a non-empty cached list is returned as it is;
\* otherwise the query runs, raises when the database fails, and its rows
\* are cached (strings and numbers come back from JSON as they went in)
get_all_employees(cached, db_ok) ==
    IF employees_cache_key \in DOMAIN cached /\ cached[employees_cache_key] # <<>>
    THEN [raised |-> FALSE, employees |-> cached[employees_cache_key], cache |-> cached]
    ELSE IF ~db_ok
    THEN [raised |-> TRUE, employees |-> <<>>, cache |-> cached]
    ELSE [raised |-> FALSE, employees |-> query_employees,
          cache |-> IF employees_cache_key \in DOMAIN cached
                    THEN [cached EXCEPT ![employees_cache_key] = query_employees]
                    ELSE cached @@ (employees_cache_key :> query_employees)]

\* analyze_employee_month: the records of the month from the cache or the
\* query, parsed and analyzed; what the fetch or the parsing raises is raised
analyze_employee_month(cached, rows, employee_id, month, db_ok) ==
    LET fetched == get_employee_attendance(cached, rows, employee_id,
                       month_start(month), month_end(month), db_ok)
    IN  IF fetched.raised
        THEN [outcome |-> Raised(FetchError), cache |-> cached]
        ELSE [outcome |-> analyze_month_records(employee_id, month,
                              parse_daily_attendance(fetched.records)),
              cache |-> fetched.cache]

EmptySummary == [compliant |-> 0, partial |-> 0, non_compliant |-> 0, warning |-> 0]

\* mutant: an employee whose analysis raises is logged and counted nowhere
report_step_uncounted(acc, employee, analysis) ==
    IF analysis.outcome.kind = "raised"
    THEN [acc EXCEPT !.cache = analysis.cache]
    ELSE [acc EXCEPT
             !.employee_stats = Append(@, [employee_info |-> employee,
                                           stats |-> analysis.outcome.value]),
             !.compliance_summary[analysis.outcome.value.overall_compliance] = @ + 1,
             !.cache = analysis.cache]

\* the body of the loop of generate_monthly_compliance_report for one
\* employee: the stats are appended and counted under their overall status,
\* an exception is counted under warning
report_step(acc, employee, analysis) ==
    IF analysis.outcome.kind = "raised"
    THEN [acc EXCEPT !.compliance_summary.warning = @ + 1,
                     !.cache = analysis.cache]
    ELSE [acc EXCEPT
             !.employee_stats = Append(@, [employee_info |-> employee,
                                           stats |-> analysis.outcome.value]),
             !.compliance_summary[analysis.outcome.value.overall_compliance] = @ + 1,
             !.cache = analysis.cache]

\* for employee in employees, from the i-th on; the database fails the
\* fetch of the employee numbered failing, if any
RECURSIVE report_loop(_, _, _, _, _, _)
report_loop(rows_of, employees, month, failing, i, acc) ==
    IF i > Len(employees) THEN acc
    ELSE report_loop(rows_of, employees, month, failing, i + 1,
             report_step(acc, employees[i],
                 analyze_employee_month(acc.cache, rows_of[employees[i].ID_PERSONA],
                     employees[i].ID_PERSONA, month, employees[i].ID_PERSONA # failing)))

report_return(month, employees, done) ==
    [outcome |-> Returned([month |-> month,
                           total_employees |-> Len(employees),
                           compliance_summary |-> done.compliance_summary,
                           employee_stats |-> done.employee_stats]),
     cache |-> done.cache]

\* generate_monthly_compliance_report
generate_monthly_compliance_report(cached, rows_of, month, employees_ok, failing) ==
    LET listed == get_all_employees(cached, employees_ok)
    IN  IF listed.raised
        THEN [outcome |-> Raised(FetchError), cache |-> cached]
        ELSE report_return(month, listed.employees,
                 report_loop(rows_of, listed.employees, month, failing, 1,
                     [employee_stats |-> <<>>, compliance_summary |-> EmptySummary,
                      cache |-> listed.cache]))

InitAnalyzer ==
    /\ attendance_data = <<>>
    /\ start_date = month_start(ReportMonth)
    /\ end_date = month_end(ReportMonth)
    /\ connection = TRUE
    /\ table = StaffTable
    /\ cache = <<>>
    /\ request = NoRequest
    /\ outcome = NoOutcome
    /\ response = NoResponse

\* GET /api/employee-stats/{employee_id}/{year}/{month}
AnalyzeEmployeeMonth(employee_id, db_ok) ==
    /\ \E call \in {analyze_employee_month(cache, table[employee_id], employee_id,
                        ReportMonth, db_ok)} :
          /\ outcome' = call.outcome
          /\ cache' = call.cache
    /\ request' = [op |-> "analyze_employee_month", employee_id |-> employee_id,
                   db_ok |-> db_ok]
    /\ UNCHANGED <<attendance_data, start_date, end_date, connection, table, response>>

\* GET /compliance/employee/{employee_id} for the same month, the database
\* answering
CheckEmployeeMonth(employee_id) ==
    /\ \E call \in {check_employee_compliance(connection, cache, table[employee_id],
                        employee_id, start_date, end_date, TRUE, TRUE)} :
          /\ outcome' = call.outcome
          /\ cache' = call.cache
          /\ connection' = call.connection
    /\ request' = [op |-> "check_employee_compliance", employee_id |-> employee_id,
                   db_ok |-> TRUE]
    /\ UNCHANGED <<attendance_data, start_date, end_date, table, response>>

\* GET /api/monthly-compliance/{year}/{month}
GenerateReport(employees_ok, failing) ==
    /\ \E call \in {generate_monthly_compliance_report(cache, table, ReportMonth,
                        employees_ok, failing)} :
          /\ outcome' = call.outcome
          /\ cache' = call.cache
    /\ request' = [op |-> "generate_monthly_compliance_report",
                   employees_ok |-> employees_ok, failing |-> failing]
    /\ UNCHANGED <<attendance_data, start_date, end_date, connection, table, response>>

\* a cache entry reaches its time to live between two calls
Expire ==
    /\ \E key \in DOMAIN cache :
          cache' = [k \in DOMAIN cache \ {key} |-> cache[k]]
    /\ UNCHANGED <<attendance_data, start_date, end_date, connection, table, request,
                   outcome, response>>

NextAnalyzer ==
    \/ \E e \in Punched, db_ok \in BOOLEAN : AnalyzeEmployeeMonth(e, db_ok)
    \/ \E e \in Punched : CheckEmployeeMonth(e)
    \/ \E employees_ok \in BOOLEAN, failing \in {0} \cup Staff :
          GenerateReport(employees_ok, failing)
    \/ Expire

SpecAnalyzer == InitAnalyzer /\ [][NextAnalyzer]_vars

----------------------------------------------------------------------------
(* Claims about the analyzer on the database, under SpecAnalyzer *)

\* the punches of a list whose ignore flag is not set
Unflagged(rows) == SelectSeq(rows, LAMBDA r : r.IGNORAR # 1)

\* the punches of the month of an employee whose ignore flag is not set
UnflaggedOfMonth(e) ==
    SelectSeq(Unflagged(table[e]),
        LAMBDA r : start_date <= r.FECHA_FICHADA.t /\ r.FECHA_FICHADA.t <= end_date)

\* C21 as claimed: whatever punch list is handed to _group_by_day or to
\* _parse_daily_attendance, its flagged punches are discarded: the days are
\* those of the list without its flagged punches.
C21_NormalizerDiscardsFlagged ==
    \A e \in DOMAIN table :
        /\ group_by_day(table[e], start_date, end_date)
              = group_by_day(Unflagged(table[e]), start_date, end_date)
        /\ parse_daily_attendance(table[e]) = parse_daily_attendance(Unflagged(table[e]))

\* C21 amended: the flagged punches are discarded by the query of
\* get_employee_attendance, which keeps the punches whose IGNORAR is 0 or
\* NULL; every evaluation of check_employee_compliance,
\* analyze_employee_month and the monthly report is the evaluation of the
\* employee's unflagged punches of the period, fetched or cached, so no
\* flagged punch is grouped into a day or counted.
C21_QueryDiscardsFlagged ==
    /\ (request.op = "check_employee_compliance" /\ outcome.kind = "returned") =>
          /\ outcome.value \in
                {compliance_verdict(request.employee_id, rows, start_date, end_date) :
                    rows \in {UnflaggedOfMonth(request.employee_id),
                              json_round_trip(UnflaggedOfMonth(request.employee_id))}}
          /\ "daily_attendance" \in DOMAIN outcome.value.details =>
                \A d \in DOMAIN outcome.value.details.daily_attendance :
                    \A i \in 1..Len(outcome.value.details.daily_attendance[d]) :
                        outcome.value.details.daily_attendance[d][i].IGNORAR # 1
    /\ (request.op = "analyze_employee_month" /\ outcome.kind = "returned") =>
          outcome = analyze_month_records(request.employee_id, ReportMonth,
                        parse_daily_attendance(UnflaggedOfMonth(request.employee_id)))
    /\ (request.op = "generate_monthly_compliance_report" /\ outcome.kind = "returned") =>
          \A i \in 1..Len(outcome.value.employee_stats) :
              \A entry \in {outcome.value.employee_stats[i]} :
                  Returned(entry.stats) =
                      analyze_month_records(entry.employee_info.ID_PERSONA, ReportMonth,
                          parse_daily_attendance(UnflaggedOfMonth(entry.employee_info.ID_PERSONA)))

\* the month of an employee with a flagged punch between the two punches of
\* a day and a day of flagged punches only is analysed: six days attended
\* and compliant
C21_Witness ==
    /\ request.op = "analyze_employee_month" /\ outcome.kind = "returned"
    /\ \E i \in 1..Len(table[request.employee_id]) :
          table[request.employee_id][i].IGNORAR = 1
    /\ outcome.value.total_days_attended = 6
    /\ outcome.value.overall_compliance = "compliant"

\* C27: with unchanged attendance data and the database answering, an
\* evaluation that repeats the one before it (analyze_employee_month or
\* check_employee_compliance of the same employee and period) returns an
\* equal result, whether its punches come from the database or from the
\* cache entry written by the first call.
C27_RepeatedEvaluationAgrees ==
    [][(/\ request'.op \in {"analyze_employee_month", "check_employee_compliance"}
        /\ request' = request
        /\ request.db_ok
        /\ table' = table)
           => outcome' = outcome]_vars

Report == outcome.value
Summary == outcome.value.compliance_summary
ReportedIds == {Report.employee_stats[i].employee_info.ID_PERSONA :
                   i \in 1..Len(Report.employee_stats)}

\* C30: in generate_monthly_compliance_report every employee is counted
\* exactly once: compliant + partial + non_compliant + warning =
\* total_employees; an employee whose analysis raises is counted under
\* warning only and does not abort the report; employee_stats has
\* total_employees - warning entries.
C30_EveryEmployeeCountedOnce ==
    request.op = "generate_monthly_compliance_report" =>
        /\ outcome.kind = "raised" => ~request.employees_ok
        /\ outcome.kind = "returned" =>
              /\ Report.total_employees = NumStaff
              /\ Summary.compliant + Summary.partial + Summary.non_compliant
                    + Summary.warning = Report.total_employees
              /\ Len(Report.employee_stats) = Report.total_employees - Summary.warning
              /\ Cardinality(ReportedIds) = Len(Report.employee_stats)
              /\ Summary.warning = Cardinality(Staff \ ReportedIds)
              /\ \A status \in {"compliant", "partial", "non_compliant"} :
                    Summary[status] =
                        Cardinality({i \in 1..Len(Report.employee_stats) :
                            Report.employee_stats[i].stats.overall_compliance = status})
              /\ request.failing \in Staff => request.failing \notin ReportedIds

\* a report with an employee whose analysis raised on cached punches and an
\* employee whose analysis returned
C30_Witness ==
    /\ request.op = "generate_monthly_compliance_report"
    /\ outcome.kind = "returned"
    /\ request.failing = 0
    /\ Summary.warning = 1
    /\ Summary.compliant = 1
    /\ Len(Report.employee_stats) = 1

----------------------------------------------------------------------------
(* AttendanceAnalyzer: the operations that enrich with employee info *)

\* the most months get_employee_trends is asked to look back
MaxMonthsBack == 2

\* datetime.now(): noon of the 16th of the month of the requests
Today == 15
Now == At(Today, 12, 0, 0)

\* the months before the month of the requests, the nearest first
PreviousMonths ==
    <<[first_weekday |-> 4, days |-> 30], [first_weekday |-> 1, days |-> 31],
      [first_weekday |-> 6, days |-> 30], [first_weekday |-> 3, days |-> 31]>>

\* the date key of the first day of the month k months before
RECURSIVE first_day_of(_)
first_day_of(k) == IF k = 0 THEN 0 ELSE first_day_of(k - 1) - PreviousMonths[k].days

\* target_date.year, target_date.month: how many months before the month
\* of the requests a date lies, counted from k on
RECURSIVE months_before(_, _)
months_before(date_key, k) ==
    IF date_key >= first_day_of(k) THEN k ELSE months_before(date_key, k + 1)

\* current_date - timedelta(days=30 * i)
target_month(i) == months_before(DateKey(Now - 30 * i * SecondsPerDay), 0)

info_cache_key(employee_id) == <<"employee_info", employee_id>>

\* get_employee_info: the cached row, or the row of CRONOS.PERSONA, cached
\* when there is one, or None
get_employee_info(cached, employee_id, db_ok) ==
    IF info_cache_key(employee_id) \in DOMAIN cached
    THEN [raised |-> FALSE, employee_info |-> cached[info_cache_key(employee_id)],
          cache |-> cached]
    ELSE IF ~db_ok
    THEN [raised |-> TRUE, employee_info |-> None, cache |-> cached]
    ELSE IF employee_id \in Staff
    THEN [raised |-> FALSE, employee_info |-> Persona(employee_id),
          cache |-> cached @@ (info_cache_key(employee_id) :> Persona(employee_id))]
    ELSE [raised |-> FALSE, employee_info |-> None, cache |-> cached]

\* the rows the query of get_data_quality_issues groups
counted_rows(rows, start, end, day) ==
    SelectSeq(query_attendance(rows, start, end),
        LAMBDA r : DateKey(r.FECHA_FICHADA.t) = day)

\* GROUP BY ID_PERSONA, TRUNC(FECHA_FICHADA) HAVING COUNT(*) != 2
issue_groups(rows_of, start, end) ==
    {g \in (DOMAIN rows_of) \X (DateKey(start)..DateKey(end)) :
        Len(counted_rows(rows_of[g[1]], start, end, g[2])) \notin {0, 2}}

\* ORDER BY FECHA_FICHADA DESC, ID_PERSONA
issue_before(g, h) == g[2] > h[2] \/ (g[2] = h[2] /\ g[1] < h[1])

issue_row(rows_of, start, end, g) ==
    LET day_rows == counted_rows(rows_of[g[1]], start, end, g[2])
    IN  [ID_PERSONA |-> g[1], DIA |-> g[2], TOTAL_REGISTROS |-> Len(day_rows),
         PRIMER_REGISTRO |-> day_rows[1].FECHA_FICHADA,
         ULTIMO_REGISTRO |-> day_rows[Len(day_rows)].FECHA_FICHADA]

\* get_data_quality_issues
get_data_quality_issues(rows_of, start, end) ==
    LET groups == issue_groups(rows_of, start, end)
    IN  [i \in 1..Cardinality(groups) |->
            issue_row(rows_of, start, end,
                CHOOSE g \in groups :
                    Cardinality({h \in groups : issue_before(h, g)}) = i - 1)]

\* f"{NOMBRE} {APELLIDO}" if employee_info else "Unknown"
employee_name_of(employee_info) ==
    IF employee_info # None
    THEN <<employee_info.NOMBRE, " ", employee_info.APELLIDO>>
    ELSE <<"Unknown">>

\* DataQualityIssue(...) of one row of issues_data
quality_issue(issue, employee_info) ==
    [employee_id |-> issue.ID_PERSONA,
     employee_name |-> employee_name_of(employee_info),
     date |-> issue.DIA,
     issue_type |-> IF issue.TOTAL_REGISTROS = 1 THEN "missing_exit"
                    ELSE IF issue.TOTAL_REGISTROS > 2 THEN "multiple_entries"
                    ELSE "invalid_sequence",
     description |-> IF issue.TOTAL_REGISTROS = 1
                     THEN <<"Missing exit record - only entry found">>
                     ELSE IF issue.TOTAL_REGISTROS > 2
                     THEN <<"Multiple entries found (", issue.TOTAL_REGISTROS, " records)">>
                     ELSE <<"Invalid attendance sequence">>,
     total_records |-> issue.TOTAL_REGISTROS,
     first_record |-> issue.PRIMER_REGISTRO,
     last_record |-> issue.ULTIMO_REGISTRO]

\* for issue in issues_data, from the i-th on
RECURSIVE issues_loop(_, _, _)
issues_loop(issues_data, i, acc) ==
    IF i > Len(issues_data) THEN acc
    ELSE LET looked == get_employee_info(acc.cache, issues_data[i].ID_PERSONA, TRUE)
         IN  issues_loop(issues_data, i + 1,
                 [quality_issues |-> Append(acc.quality_issues,
                                        quality_issue(issues_data[i], looked.employee_info)),
                  cache |-> looked.cache])

issues_return(done) == [outcome |-> Returned(done.quality_issues), cache |-> done.cache]

\* detect_data_quality_issues over the last 30 days; with the database down
\* the query of the issues raises
detect_data_quality_issues(cached, rows_of, db_ok) ==
    IF ~db_ok THEN [outcome |-> Raised(FetchError), cache |-> cached]
    ELSE issues_return(
             issues_loop(get_data_quality_issues(rows_of, Now - 30 * SecondsPerDay, Now),
                 1, [quality_issues |-> <<>>, cache |-> cached]))

\* analyze_employee_month for the month k months before the month of the
\* requests; the table has no rows before the month of the requests, so the
\* records of an earlier month are none
analyze_month_before(cached, rows, employee_id, k, db_ok) ==
    IF k = 0 THEN analyze_employee_month(cached, rows, employee_id, ReportMonth, db_ok)
    ELSE LET fetched == get_employee_attendance(cached, rows, employee_id,
                            At(first_day_of(k), 0, 0, 0),
                            At(first_day_of(k - 1), 0, 0, 0) - 1, db_ok)
         IN  IF fetched.raised
             THEN [outcome |-> Raised(FetchError), cache |-> cached]
             ELSE [outcome |-> analyze_month_records(employee_id, PreviousMonths[k],
                                   parse_daily_attendance(fetched.records)),
                   cache |-> fetched.cache]

\* TrendData(...) of the stats of the month k months before
trend_of(k, stats) ==
    [month |-> k,
     days_attended |-> stats.total_days_attended,
     total_hours |-> stats.total_hours_worked,
     compliance_status |-> stats.overall_compliance,
     hours_compliance |-> stats.hours_compliance = "compliant",
     pattern_compliance |-> stats.pattern_compliance]

\* the body of the loop of get_employee_trends: an exception is logged
trend_step(acc, k, analysis) ==
    IF analysis.outcome.kind = "raised"
    THEN [acc EXCEPT !.cache = analysis.cache]
    ELSE [acc EXCEPT !.trend_data = Append(@, trend_of(k, analysis.outcome.value)),
                     !.cache = analysis.cache]

\* for i in range(months_back), from i on
RECURSIVE trend_loop(_, _, _, _, _, _)
trend_loop(rows, employee_id, months_back, db_ok, i, acc) ==
    IF i >= months_back THEN acc
    ELSE trend_loop(rows, employee_id, months_back, db_ok, i + 1,
             trend_step(acc, target_month(i),
                 analyze_month_before(acc.cache, rows, employee_id, target_month(i), db_ok)))

count_compliant(trend_data, from, to) ==
    Cardinality({i \in from..to : trend_data[i].compliance_status = "compliant"})

overall_trend_of(trend_data) ==
    IF Len(trend_data) >= 3
    THEN LET recent_compliance == count_compliant(trend_data, 1, 3)
             older_compliance == count_compliant(trend_data, 4, Len(trend_data))
         IN  IF recent_compliance > older_compliance THEN "improving"
             ELSE IF recent_compliance < older_compliance THEN "declining"
             ELSE "stable"
    ELSE "stable"

ValidationError == "validation error for EmployeeTrends: employee_info"

\* pydantic's validation of a value as EmployeeInfo: a dict with the
\* fields of the model (None is no dict, and the keys of a row of
\* CRONOS.PERSONA are the column names in capitals)
valid_employee_info(employee_info) ==
    {"id_persona", "nombre", "apellido", "departamento", "email"}
        \subseteq DOMAIN employee_info

\* return EmployeeTrends(employee_info=..., trend_data=..., overall_trend=...)
trends_return(employee_info, done) ==
    [outcome |-> IF valid_employee_info(employee_info)
                 THEN Returned([employee_info |-> employee_info,
                                trend_data |-> Reverse(done.trend_data),
                                overall_trend |-> overall_trend_of(done.trend_data)])
                 ELSE Raised(ValidationError),
     cache |-> done.cache]

\* get_employee_trends
get_employee_trends(cached, rows, employee_id, months_back, db_ok) ==
    LET looked == get_employee_info(cached, employee_id, db_ok)
    IN  IF looked.raised
        THEN [outcome |-> Raised(FetchError), cache |-> cached]
        ELSE trends_return(looked.employee_info,
                 trend_loop(rows, employee_id, months_back, db_ok, 0,
                     [trend_data |-> <<>>, cache |-> looked.cache]))

\* the dict analyze_weekly_patterns returns, without its formatted dates
\* and times and its rounded hours
weekly_patterns_report(employee_info, stats) ==
    [employee_info |-> employee_info,
     weekly_patterns |->
        [i \in 1..Len(stats.weekly_patterns) |->
            [week_number |-> i,
             days_attended |-> stats.weekly_patterns[i].days_attended,
             meets_requirement |-> stats.weekly_patterns[i].meets_pattern_requirement,
             daily_details |->
                [j \in 1..Len(stats.weekly_patterns[i].days_details) |->
                    [is_complete |-> stats.weekly_patterns[i].days_details[j].is_complete,
                     meets_9h |->
                        stats.weekly_patterns[i].days_details[j].meets_9h_requirement]]]],
     summary |->
        [total_days |-> stats.total_days_attended,
         weeks_with_1_day |-> stats.weeks_with_1_day,
         weeks_with_2_days |-> stats.weeks_with_2_days,
         days_compliance |-> stats.days_compliance,
         hours_compliance |-> stats.hours_compliance,
         pattern_compliance |-> stats.pattern_compliance,
         overall_compliance |-> stats.overall_compliance]]

\* analyze_weekly_patterns: the month is analysed, then the employee looked up
analyze_weekly_patterns_of(cached, rows, employee_id, month, db_ok) ==
    LET analysis == analyze_employee_month(cached, rows, employee_id, month, db_ok)
        looked == get_employee_info(analysis.cache, employee_id, db_ok)
    IN  IF analysis.outcome.kind = "raised" THEN analysis
        ELSE IF looked.raised
        THEN [outcome |-> Raised(FetchError), cache |-> analysis.cache]
        ELSE [outcome |-> Returned(weekly_patterns_report(looked.employee_info,
                                       analysis.outcome.value)),
              cache |-> looked.cache]

\* the employees asked about: one of CRONOS.PERSONA and the one without a
\* row there
EnrichIds == {1, NumStaff + 1}

InitEnrich ==
    /\ attendance_data = <<>>
    /\ start_date = month_start(ReportMonth)
    /\ end_date = month_end(ReportMonth)
    /\ connection = TRUE
    /\ table = StaffTable
    /\ cache = <<>>
    /\ request = NoRequest
    /\ outcome = NoOutcome
    /\ response = NoResponse

EnrichDone(call) ==
    /\ outcome' = call.outcome
    /\ cache' = call.cache
    /\ UNCHANGED <<attendance_data, start_date, end_date, connection, table, response>>

\* GET /api/data-quality-issues
DetectIssues(db_ok) ==
    /\ request' = [op |-> "detect_data_quality_issues", db_ok |-> db_ok]
    /\ EnrichDone(detect_data_quality_issues(cache, table, db_ok))

\* GET /api/trends/{employee_id}
GetTrends(employee_id, months_back, db_ok) ==
    /\ request' = [op |-> "get_employee_trends", employee_id |-> employee_id,
                   months_back |-> months_back, db_ok |-> db_ok]
    /\ EnrichDone(get_employee_trends(cache, table[employee_id], employee_id,
                      months_back, db_ok))

\* GET /api/weekly-patterns/{employee_id}/{year}/{month}
WeeklyPatterns(employee_id, db_ok) ==
    /\ request' = [op |-> "analyze_weekly_patterns", employee_id |-> employee_id,
                   db_ok |-> db_ok]
    /\ EnrichDone(analyze_weekly_patterns_of(cache, table[employee_id], employee_id,
                      ReportMonth, db_ok))

NextEnrich ==
    \/ \E db_ok \in BOOLEAN : DetectIssues(db_ok)
    \/ \E e \in EnrichIds, months_back \in 0..MaxMonthsBack, db_ok \in BOOLEAN :
          GetTrends(e, months_back, db_ok)
    \/ \E e \in EnrichIds, db_ok \in BOOLEAN : WeeklyPatterns(e, db_ok)
    \/ Expire

SpecEnrich == InitEnrich /\ [][NextEnrich]_vars

----------------------------------------------------------------------------
(* Claims about the enrichment with employee info, under SpecEnrich *)

\* the employee of the request has no row in CRONOS.PERSONA and the lookup
\* has answered so
LookupMiss == request.employee_id \notin Staff /\ request.db_ok

\* C26: when the employee lookup returns absent for an id, the name
\* enrichment falls back to the placeholder label "Unknown" and the report
\* is still produced, in detect_data_quality_issues, get_employee_trends
\* and analyze_weekly_patterns alike.
C26_LookupMissPlaceholder ==
    /\ (request.op = "detect_data_quality_issues" /\ outcome.kind = "returned") =>
          \A i \in 1..Len(outcome.value) :
              outcome.value[i].employee_id \notin Staff =>
                  outcome.value[i].employee_name = <<"Unknown">>
    /\ (request.op = "get_employee_trends" /\ LookupMiss) =>
          /\ outcome.kind = "returned"
          /\ outcome.value.employee_info # None
    /\ (request.op = "analyze_weekly_patterns" /\ LookupMiss
            /\ outcome.kind = "returned") =>
          outcome.value.employee_info # None

====
